---- MODULE Spec2Model ----
(***************************************************************************)
(* The inbound HTTPS connection of the storage server                      *)
(* (src/httpserver/http_connection.cpp): one connection_t per accepted     *)
(* socket, its TLS stream, its session-deadline timer, the long-poll       *)
(* notification timer, the storage-test repeat timer, and the request      *)
(* handlers, run against the service node's message store and long-poll    *)
(* registry.  All handlers run on the primary io_context, one at a time:   *)
(* every action below is one completion handler, run to its end.           *)
(* The reachability records of the peers found offline                     *)
(* (src/httpserver/reachability_testing.cpp) are followed on their own.    *)
(* So are the swarm map of the node (placement of a recipient, the events  *)
(* of an update), and the start of the process: main's checks of the       *)
(* command line (src/httpserver/main.cpp), the fetch of the keys from the  *)
(* daemon and the accept loop.  The outbound HttpClientSession objects of  *)
(* make_http_request and the rounds of the reachability tester close the   *)
(* module.                                                                 *)
(***************************************************************************)
EXTENDS Integers, Sequences, FiniteSets, TLC

\* ------------------------------------------------------------------ bounds
NumConns == 2
MaxStore == 2
MaxBatch == 2
MaxRetry == 2
NumHashes == 2
MaxNow == 242        \* minutes the reachability records are followed for
MaxDrift == 2        \* single minutes that pass between two grace periods
EarlyAttempt == 1000 \* microseconds from construction to an early first attempt
LateAttempt == 50000 \* microseconds from construction to a late first attempt
MinLate == 1         \* microseconds by which a repeat timer fires late, at least
MaxLate == 50        \* microseconds by which a repeat timer fires late, at most
IdBits == 3          \* the width of a swarm id (64 in the program)
MaxSwarms == 2       \* swarms in a swarm map, at most
MaxFetch == 3        \* requests wait_for_privkey makes, at most
NumSessions == 2     \* outbound sessions followed at once
MaxRounds == 7       \* minutes the rounds of the reachability tester are followed for

\* ------------------------------------------------------- program constants
MAX_MESSAGE_BODY == 3100
MAINNET_USER_PUBKEY_SIZE == 64
STAGENET_USER_PUBKEY_SIZE == 64
TEST_RETRY_PERIOD == 50000      \* 50 ms, in microseconds
ONE_MINUTE == 60000000          \* 1min, in microseconds
UNREACH_GRACE_PERIOD == 120     \* 120min, in minutes

\* The proof-of-work rejection is compiled in (DISABLE_POW is not defined).
DISABLE_POW == FALSE

\* Whether the build defines DISABLE_ENCRYPTION: with it, client bodies are
\* taken as they come and every response carries body_stream_; without it,
\* the client channel is encrypted.  Both builds are modelled; the choice is
\* made once, before the server starts.
VARIABLE DISABLE_ENCRYPTION

Conns == 1..NumConns
Recipients == {"r1", "r2"}
Hashes == 1..NumHashes
Messages == [pub_key : Recipients, hash : Hashes]

None == [none |-> TRUE]

\* ------------------------------------------------------------- networking
is_mainnet == TRUE

get_user_pubkey_size ==
  IF is_mainnet THEN MAINNET_USER_PUBKEY_SIZE ELSE STAGENET_USER_PUBKEY_SIZE

\* user_pubkey_t::create: success iff the string has the network's length.
user_pubkey_create(len) == len = get_user_pubkey_size

\* ------------------------------------------------- steady_timer semantics
\* A timer is "off" (never armed), "armed" (wait pending), "expired" (its
\* handler is queued with success), "aborted" (its handler is queued with
\* operation_aborted) or "done" (the handler has run).  cancel() aborts a
\* pending wait only: a handler already queued for invocation keeps the
\* error code it was queued with.
TimerStates == {"off", "armed", "expired", "aborted", "done"}

timer_cancel(t) == IF t = "armed" THEN "aborted" ELSE t

timer_pending(t) == t \in {"armed", "expired", "aborted"}

\* ------------------------------------------------------------ connection_t
NewConn ==
  [pc |-> "free",              \* position of the request on the stream
   stream |-> "open",          \* TLS stream / socket
   shutdowns |-> 0,            \* async_shutdown operations in flight
   opens |-> 0,                \* record_socket_open calls
   closes |-> 0,               \* record_socket_close calls
   deadline |-> "off",         \* deadline_
   ntimer |-> "off",           \* notification_ctx_->timer
   rtimer |-> "off",           \* repeat_timer_
   bc |-> FALSE,               \* blockchain-test callback outstanding
   delay_response |-> FALSE,   \* delay_response_
   status |-> 200,             \* response_.result()
   body_stream |-> <<>>,       \* body_stream_
   hdr_pk |-> FALSE,           \* header_ holds the sender pubkey
   hdr_ephem |-> FALSE,        \* header_ holds the ephemeral key
   enc_ok |-> TRUE,            \* channel_cipher_.encrypt succeeds
   writes |-> 0,               \* write_response calls
   resp |-> None,              \* the response handed to async_write
   io_live |-> FALSE,          \* the pending stream operation began on an open stream
   delivered |-> FALSE,        \* the write completed without error
   nctx |-> None,              \* notification_ctx_
   repetition_count |-> 0]     \* repetition_count_

Tag(t) == [t |-> t, items |-> <<>>]

Say(k, t) == [k EXCEPT !.body_stream = Append(@, Tag(t))]

Result(k, code) == [k EXCEPT !.status = code]

\* ------------------------------------------------ connection_t: the stream
\* do_close: start the TLS shutdown; on_shutdown closes the socket later.
do_close(k) ==
  [k EXCEPT !.shutdowns = @ + 1,
            !.stream = IF @ = "open" THEN "shutting" ELSE @]

\* write_response: fill response_.body() and start the asynchronous write.
\* With encryption compiled in, the body is taken from body_stream_ only when
\* header_ holds the ephemeral key.
write_response(k) ==
  LET k1 == IF DISABLE_ENCRYPTION \/ ~k.hdr_ephem \/ k.enc_ok
            THEN k
            ELSE Say(Result(k, 500), "Could not encrypt/encode response")
      sent == IF DISABLE_ENCRYPTION THEN k1.body_stream
              ELSE IF k1.hdr_ephem THEN k1.body_stream
              ELSE <<>>
  IN [k1 EXCEPT !.pc = "write",
                !.writes = @ + 1,
                !.io_live = (k1.stream = "open"),
                !.resp = [status |-> k1.status, body |-> sent,
                          encrypted |-> ~DISABLE_ENCRYPTION /\ k1.hdr_ephem /\ k1.enc_ok]]

\* respond_with_messages: 200, the messages as JSON, and the write.
respond_with_messages(k, items) ==
  write_response(
    [Result(k, 200) EXCEPT !.body_stream = Append(@, [t |-> "messages", items |-> items])])

\* connection_t::notify, called by the service node for every listener of the
\* recipient of a newly stored message.
notify(k, msg) ==
  IF k.nctx = None THEN k
  ELSE [k EXCEPT !.nctx = [pubkey |-> k.nctx.pubkey, message |-> msg],
                 !.ntimer = timer_cancel(@)]

\* ------------------------------------------ service node (message store)
\* The store is the list of stored messages in commit order, at most one per
\* (recipient, hash).
InStore(st, m) == \E i \in 1..Len(st) : st[i] = m

\* A store that commits every message of a batch, stored already or not.
save_always(st, batch) == st \o batch

RECURSIVE save_if_new(_, _)
save_if_new(st, batch) ==
  IF batch = <<>> THEN st
  ELSE save_if_new(IF InStore(st, Head(batch)) THEN st ELSE Append(st, Head(batch)),
                   Tail(batch))

\* The messages of a batch that the store did not hold, in batch order.
RECURSIVE new_messages(_, _)
new_messages(st, batch) ==
  IF batch = <<>> THEN <<>>
  ELSE IF InStore(st, Head(batch)) THEN new_messages(st, Tail(batch))
  ELSE <<Head(batch)>> \o new_messages(Append(st, Head(batch)), Tail(batch))

RECURSIVE SelectPk(_, _)
SelectPk(st, pk) ==
  IF st = <<>> THEN <<>>
  ELSE (IF Head(st).pub_key = pk THEN <<Head(st)>> ELSE <<>>) \o SelectPk(Tail(st), pk)

RECURSIVE AfterHash(_, _)
AfterHash(items, h) ==
  IF items = <<>> THEN <<>>
  ELSE IF Head(items).hash = h THEN Tail(items)
  ELSE AfterHash(Tail(items), h)

\* retrieve(pk, last_hash): the recipient's messages committed after the one
\* identified by last_hash, all of them when last_hash is empty (0) or unknown.
retrieve(st, pk, last_hash) ==
  LET mine == SelectPk(st, pk)
  IN IF \E i \in 1..Len(mine) : mine[i].hash = last_hash
     THEN AfterHash(mine, last_hash)
     ELSE mine

\* --------------------------------------------------------------- requests
\* What a handler reads of one request: the request line, its headers and
\* body, and the answers of the collaborators it consults on the way (node
\* readiness, rate limiter, signature check, swarm ownership, TTL/timestamp
\* parsing, proof of work, the store).
StoreFields == {"pubKey", "ttl", "nonce", "timestamp", "data"}
RetrieveFields == {"pubKey", "lastHash"}
SnodesFields == {"pubKey"}
SwarmTargets == {"/swarms/push/v1", "/swarms/push_batch/v1", "/swarms/storage_test/v1",
                 "/swarms/blockchain_test/v1", "/swarms/ping_test/v1"}
TestStatuses == {"SUCCESS", "RETRY", "WRONG_REQ", "OTHER"}

\* The targets whose requests are forwarded to the service node.
ForwardTargets == SwarmTargets \ {"/swarms/ping_test/v1"}

\* The evaluation context of one run of process_request: the connection, the
\* messages handed to the service node for storing, whether a listener was
\* registered, the service-node operations called, whether the process was
\* aborted, and whether a std::exception is propagating out of the handler.
Ctx(k) ==
  [k |-> k, ingest |-> <<>>, reg |-> FALSE, called |-> {}, crash |-> FALSE,
   thrown |-> FALSE]

OnK(x, k) == [x EXCEPT !.k = k]

Call(x, op) == [x EXCEPT !.called = @ \cup {op}]

\* A std::exception leaves the handler at this point.
Throw(x) == [x EXCEPT !.thrown = TRUE, !.called = @ \cup {"throw"}]

\* parse_header(ARQMA_SENDER_SNODE_PUBKEY_HEADER, ARQMA_SNODE_SIGNATURE_HEADER):
\* left to right, stopping at the first missing header.
parse_snode_headers(k, hdrs) ==
  IF hdrs \in {"pk", "both"}
  THEN (IF hdrs = "both" THEN [k EXCEPT !.hdr_pk = TRUE]
        ELSE Say([k EXCEPT !.hdr_pk = TRUE], "Missing field in header"))
  ELSE Say(k, "Missing field in header")

\* validate_snode_request without the signature check.
validate_snode_request_unverified(x, r) ==
  LET k0 == parse_snode_headers(x.k, r.hdrs)
  IN IF r.hdrs # "both" THEN [ok |-> FALSE, x |-> OnK(x, k0)]
     ELSE IF ~r.known
       THEN [ok |-> FALSE,
             x |-> Call(OnK(x, Result(Say(k0, "Unknown service node"), 401)),
                        "is_snode_address_known")]
     ELSE IF r.limited
       THEN [ok |-> FALSE,
             x |-> Call(Call(OnK(x, Result(Say(k0, "Too many requests"), 429)),
                             "is_snode_address_known"), "should_rate_limit")]
     ELSE [ok |-> TRUE,
           x |-> Call(Call(OnK(x, k0), "is_snode_address_known"), "should_rate_limit")]

validate_snode_request(x, r) ==
  LET k0 == parse_snode_headers(x.k, r.hdrs)
  IN IF r.hdrs # "both" THEN [ok |-> FALSE, x |-> OnK(x, k0)]
     ELSE IF ~r.known
       THEN [ok |-> FALSE,
             x |-> Call(OnK(x, Result(Say(k0, "Unknown service node"), 401)),
                        "is_snode_address_known")]
     ELSE IF ~r.sigOk
       THEN [ok |-> FALSE,
             x |-> Call(OnK(x, Result(Say(k0, "Could not verify batch signature"), 401)),
                        "is_snode_address_known")]
     ELSE IF r.limited
       THEN [ok |-> FALSE,
             x |-> Call(Call(OnK(x, Result(Say(k0, "Too many requests"), 429)),
                             "is_snode_address_known"), "should_rate_limit")]
     ELSE [ok |-> TRUE,
           x |-> Call(Call(OnK(x, k0), "is_snode_address_known"), "should_rate_limit")]

\* elapsed_time < 1min, measured from start_timestamp_ (set when the
\* connection and its deadline timer were constructed).
elapsed_lt_1min(k) == k.deadline = "armed"

\* process_storage_test_req scheduling a retry on RETRY whatever time has
\* elapsed.
process_storage_test_req_untimed(x, status) ==
  LET x1 == Call(x, "process_storage_test_req")
      k == x1.k
  IN IF status = "SUCCESS"
       THEN OnK(x1, write_response(
                      Result(Say([k EXCEPT !.delay_response = TRUE], "status: OK, value"), 200)))
     ELSE IF status = "RETRY"
       THEN OnK(x1, [k EXCEPT !.delay_response = TRUE,
                              !.repetition_count = @ + 1,
                              !.rtimer = "armed"])
     ELSE IF status = "WRONG_REQ"
       THEN OnK(x1, Result(Say(k, "status: wrong request"), 200))
     ELSE OnK(x1, Result(Say(k, "status: other"), 200))

process_storage_test_req(x, status) ==
  LET x1 == Call(x, "process_storage_test_req")
      k == x1.k
  IN IF status = "SUCCESS"
       THEN OnK(x1, write_response(
                      Result(Say([k EXCEPT !.delay_response = TRUE], "status: OK, value"), 200)))
     ELSE IF status = "RETRY" /\ elapsed_lt_1min(k)
       THEN OnK(x1, [k EXCEPT !.delay_response = TRUE,
                              !.repetition_count = @ + 1,
                              !.rtimer = "armed"])
     ELSE IF status = "WRONG_REQ"
       THEN OnK(x1, Result(Say(k, "status: wrong request"), 200))
     ELSE OnK(x1, Result(Say(k, "status: other"), 200))

process_blockchain_test_req(x) ==
  OnK(Call(x, "perform_blockchain_test"), [x.k EXCEPT !.bc = TRUE])

\* process_swarm_req turning away every request that fails validation, the
\* ping included.
process_swarm_req_strict(x, r) ==
  LET v == validate_snode_request(x, r)
      y == v.x
      k == y.k
  IN IF ~v.ok THEN y
     ELSE IF r.target = "/swarms/push_batch/v1"
       THEN (IF r.throws THEN Throw(Call(OnK(y, Result(k, 200)), "process_push_batch"))
             ELSE [Call(OnK(y, Result(k, 200)), "process_push_batch")
                     EXCEPT !.ingest = r.batch])
     ELSE IF r.target = "/swarms/storage_test/v1"
       THEN (IF r.json = "bad" THEN OnK(y, Result(Say(k, "invalid json"), 400))
             ELSE IF r.json = "nofields"
               THEN OnK(y, Result(Say(k, "Bad snode test request: missing fields in json"), 400))
             ELSE IF k.hdr_pk
               THEN (IF r.throws
                     THEN Throw(Call(OnK(y, Result(k, 400)), "process_storage_test_req"))
                     ELSE process_storage_test_req(OnK(y, Result(k, 400)), r.status))
             ELSE OnK(y, Result(k, 400)))
     ELSE IF r.target = "/swarms/blockchain_test/v1"
       THEN (IF r.json # "ok" THEN OnK(y, Result(k, 400))
             ELSE IF k.hdr_pk
               THEN (IF r.throws
                     THEN Throw(Call(OnK(y, [k EXCEPT !.delay_response = TRUE]),
                                     "perform_blockchain_test"))
                     ELSE process_blockchain_test_req(
                            OnK(y, [k EXCEPT !.delay_response = TRUE])))
             ELSE y)
     ELSE IF r.target = "/swarms/ping_test/v1" THEN OnK(y, Result(k, 200))
     ELSE IF r.target = "/swarms/push/v1"
       \* assert(messages.size() == 1); process_push(messages.front())
       THEN (IF Len(r.batch) = 1 /\ r.throws THEN Throw(Call(y, "process_push"))
             ELSE IF Len(r.batch) = 1
             THEN [Call(OnK(y, Result(k, 200)), "process_push") EXCEPT !.ingest = r.batch]
             ELSE IF Len(r.batch) > 1 /\ r.ndebug
               THEN [Call(OnK(y, Result(k, 200)), "process_push")
                       EXCEPT !.ingest = <<Head(r.batch)>>]
             \* front() of an empty vector: whatever the build finds there
             ELSE IF Len(r.batch) = 0 /\ r.ndebug /\ r.front # None
               THEN [Call(OnK(y, Result(k, 200)), "process_push")
                       EXCEPT !.ingest = <<r.front>>]
             ELSE [y EXCEPT !.crash = TRUE])
     ELSE y

process_swarm_req(x, r) ==
  LET v == validate_snode_request(x, r)
      y == v.x
      k == y.k
  IN IF ~v.ok /\ r.target # "/swarms/ping_test/v1" THEN y
     ELSE IF r.target = "/swarms/push_batch/v1"
       THEN (IF r.throws THEN Throw(Call(OnK(y, Result(k, 200)), "process_push_batch"))
             ELSE [Call(OnK(y, Result(k, 200)), "process_push_batch")
                     EXCEPT !.ingest = r.batch])
     ELSE IF r.target = "/swarms/storage_test/v1"
       THEN (IF r.json = "bad" THEN OnK(y, Result(Say(k, "invalid json"), 400))
             ELSE IF r.json = "nofields"
               THEN OnK(y, Result(Say(k, "Bad snode test request: missing fields in json"), 400))
             ELSE IF k.hdr_pk
               THEN (IF r.throws
                     THEN Throw(Call(OnK(y, Result(k, 400)), "process_storage_test_req"))
                     ELSE process_storage_test_req(OnK(y, Result(k, 400)), r.status))
             ELSE OnK(y, Result(k, 400)))
     ELSE IF r.target = "/swarms/blockchain_test/v1"
       THEN (IF r.json # "ok" THEN OnK(y, Result(k, 400))
             ELSE IF k.hdr_pk
               THEN (IF r.throws
                     THEN Throw(Call(OnK(y, [k EXCEPT !.delay_response = TRUE]),
                                     "perform_blockchain_test"))
                     ELSE process_blockchain_test_req(
                            OnK(y, [k EXCEPT !.delay_response = TRUE])))
             ELSE y)
     ELSE IF r.target = "/swarms/ping_test/v1" THEN OnK(y, Result(k, 200))
     ELSE IF r.target = "/swarms/push/v1"
       \* assert(messages.size() == 1); process_push(messages.front())
       THEN (IF Len(r.batch) = 1 /\ r.throws THEN Throw(Call(y, "process_push"))
             ELSE IF Len(r.batch) = 1
             THEN [Call(OnK(y, Result(k, 200)), "process_push") EXCEPT !.ingest = r.batch]
             ELSE IF Len(r.batch) > 1 /\ r.ndebug
               THEN [Call(OnK(y, Result(k, 200)), "process_push")
                       EXCEPT !.ingest = <<Head(r.batch)>>]
             \* front() of an empty vector: whatever the build finds there
             ELSE IF Len(r.batch) = 0 /\ r.ndebug /\ r.front # None
               THEN [Call(OnK(y, Result(k, 200)), "process_push")
                       EXCEPT !.ingest = <<r.front>>]
             ELSE [y EXCEPT !.crash = TRUE])
     ELSE y

\* handle_wrong_swarm: 421 and the members of the owning swarm as JSON.
handle_wrong_swarm(x) ==
  OnK(Call(x, "get_snodes_by_pk"), Result(Say(x.k, "snodes"), 421))

\* process_store rejecting a body of exactly MAX_MESSAGE_BODY bytes as well.
process_store_size_inclusive(x, r) ==
  LET k == x.k
  IN IF r.missing \cap StoreFields # {}
       THEN OnK(x, Result(Say(k, "invalid json: no field"), 400))
     ELSE IF r.throws THEN Throw(x)
     ELSE IF ~user_pubkey_create(r.pkLen)
       THEN OnK(x, Result(Say(k, "Pubkey must be N characters long"), 400))
     ELSE IF r.dataLen >= MAX_MESSAGE_BODY
       THEN OnK(x, Result(Say(k, "Message body exceeds maximum allowed length"), 400))
     ELSE IF ~r.forUs THEN handle_wrong_swarm(Call(x, "is_pubkey_for_us"))
     ELSE IF ~r.ttlOk
       THEN OnK(Call(Call(x, "is_pubkey_for_us"), "parseTTL"),
                Result(Say(k, "Provided TTL is not valid."), 403))
     ELSE IF ~r.tsOk
       THEN OnK(Call(Call(Call(x, "is_pubkey_for_us"), "parseTTL"), "parseTimestamp"),
                Result(Say(k, "Timestamp error: check your clock"), 406))
     ELSE IF ~DISABLE_POW /\ ~r.powOk
       THEN OnK(Call(Call(Call(Call(x, "is_pubkey_for_us"), "parseTTL"), "parseTimestamp"),
                     "checkPoW"),
                Result(Say(k, "difficulty"), 432))
     ELSE LET y == Call(Call(Call(Call(Call(x, "is_pubkey_for_us"), "parseTTL"),
                                  "parseTimestamp"), "checkPoW"), "process_store")
          IN IF r.storeRes = "throw"
               THEN OnK(y, Result(Say(k, "exception"), 500))
             ELSE IF r.storeRes = "fail"
               THEN OnK(y, Result(Say(k, "Service node is initializing"), 503))
             ELSE [OnK(y, Result(Say(k, "difficulty"), 200))
                     EXCEPT !.ingest = <<[pub_key |-> r.pk, hash |-> r.hash]>>]

process_store(x, r) ==
  LET k == x.k
  IN IF r.missing \cap StoreFields # {}
       THEN OnK(x, Result(Say(k, "invalid json: no field"), 400))
     ELSE IF r.throws THEN Throw(x)
     ELSE IF ~user_pubkey_create(r.pkLen)
       THEN OnK(x, Result(Say(k, "Pubkey must be N characters long"), 400))
     ELSE IF r.dataLen > MAX_MESSAGE_BODY
       THEN OnK(x, Result(Say(k, "Message body exceeds maximum allowed length"), 400))
     ELSE IF ~r.forUs THEN handle_wrong_swarm(Call(x, "is_pubkey_for_us"))
     ELSE IF ~r.ttlOk
       THEN OnK(Call(Call(x, "is_pubkey_for_us"), "parseTTL"),
                Result(Say(k, "Provided TTL is not valid."), 403))
     ELSE IF ~r.tsOk
       THEN OnK(Call(Call(Call(x, "is_pubkey_for_us"), "parseTTL"), "parseTimestamp"),
                Result(Say(k, "Timestamp error: check your clock"), 406))
     ELSE IF ~DISABLE_POW /\ ~r.powOk
       THEN OnK(Call(Call(Call(Call(x, "is_pubkey_for_us"), "parseTTL"), "parseTimestamp"),
                     "checkPoW"),
                Result(Say(k, "difficulty"), 432))
     ELSE LET y == Call(Call(Call(Call(Call(x, "is_pubkey_for_us"), "parseTTL"),
                                  "parseTimestamp"), "checkPoW"), "process_store")
          IN IF r.storeRes = "throw"
               THEN OnK(y, Result(Say(k, "exception"), 500))
             ELSE IF r.storeRes = "fail"
               THEN OnK(y, Result(Say(k, "Service node is initializing"), 503))
             ELSE [OnK(y, Result(Say(k, "difficulty"), 200))
                     EXCEPT !.ingest = <<[pub_key |-> r.pk, hash |-> r.hash]>>]

process_snodes_by_pk(x, r) ==
  LET k == x.k
  IN IF r.missing \cap SnodesFields # {}
       THEN OnK(x, Result(Say(k, "invalid json: no field"), 400))
     ELSE IF ~user_pubkey_create(r.pkLen)
       THEN OnK(x, Result(Say(k, "Pubkey must be N characters long"), 400))
     ELSE IF r.throws THEN Throw(Call(x, "get_snodes_by_pk"))
     ELSE OnK(Call(x, "get_snodes_by_pk"), Result(Say(k, "snodes"), 200))

\* poll_db suspending every long-poll request, whatever the query returned.
poll_db_suspend_any(x, r, st) ==
  LET k == x.k
      y == Call(x, "retrieve")
      items == retrieve(st, r.pk, r.lastHash)
  IN IF r.throws THEN Throw(y)
     ELSE IF ~r.retrOk THEN OnK(y, Result(k, 500))
     ELSE IF r.lp
       THEN [OnK(Call(y, "register_listener"),
                 [k EXCEPT !.nctx = [pubkey |-> r.pk, message |-> None],
                           !.ntimer = "armed"])
               EXCEPT !.reg = TRUE]
     ELSE OnK(y, respond_with_messages(k, items))

\* poll_db: query the store; suspend on an empty result of a long-poll
\* request, respond otherwise.
poll_db(x, r, st) ==
  LET k == x.k
      y == Call(x, "retrieve")
      items == retrieve(st, r.pk, r.lastHash)
  IN IF r.throws THEN Throw(y)
     ELSE IF ~r.retrOk THEN OnK(y, Result(k, 500))
     ELSE IF items = <<>> /\ r.lp
       THEN [OnK(Call(y, "register_listener"),
                 [k EXCEPT !.nctx = [pubkey |-> r.pk, message |-> None],
                           !.ntimer = "armed"])
               EXCEPT !.reg = TRUE]
     ELSE OnK(y, respond_with_messages(k, items))

\* process_retrieve serving a pubkey whatever swarm owns it.
process_retrieve_any_swarm(x, r, st) ==
  LET k == x.k
  IN IF r.missing \cap RetrieveFields # {}
       THEN OnK(x, Result(Say(k, "invalid json: no field"), 400))
     ELSE IF ~user_pubkey_create(r.pkLen)
       THEN OnK(x, Result(Say(k, "PubKey must be N characters long"), 400))
     ELSE poll_db(OnK(Call(x, "is_pubkey_for_us"), [k EXCEPT !.delay_response = TRUE]), r, st)

process_retrieve(x, r, st) ==
  LET k == x.k
  IN IF r.missing \cap RetrieveFields # {}
       THEN OnK(x, Result(Say(k, "invalid json: no field"), 400))
     ELSE IF ~user_pubkey_create(r.pkLen)
       THEN OnK(x, Result(Say(k, "PubKey must be N characters long"), 400))
     ELSE IF ~r.forUs THEN handle_wrong_swarm(Call(x, "is_pubkey_for_us"))
     ELSE poll_db(OnK(Call(x, "is_pubkey_for_us"), [k EXCEPT !.delay_response = TRUE]), r, st)

\* process_client_req dispatching without regard to the rate limiter's answer.
process_client_req_unlimited(x, r, st) ==
  LET k == x.k
      k1 == [k EXCEPT !.hdr_ephem = TRUE, !.enc_ok = r.encOk]
      xl == Call(x, "should_rate_limit_client")
  IN IF ~DISABLE_ENCRYPTION /\ ~r.ephem THEN OnK(xl, Say(k, "Missing field in header"))
     ELSE IF ~DISABLE_ENCRYPTION /\ ~r.decOk
       THEN OnK(xl, Result(Say(k1, "Could not decode/decrypt body"), 400))
     ELSE LET y == OnK(xl, IF DISABLE_ENCRYPTION THEN k ELSE k1)
          IN IF r.json = "bad" THEN OnK(y, Result(Say(y.k, "invalid json"), 400))
             ELSE IF r.json = "nomethod"
               THEN OnK(y, Result(Say(y.k, "invalid json: no method field"), 400))
             ELSE IF r.json = "noparams"
               THEN OnK(y, Result(Say(y.k, "invalid json: no params field"), 400))
             ELSE IF r.method = "store" THEN process_store(y, r)
             ELSE IF r.method = "retrieve" THEN process_retrieve(y, r, st)
             ELSE IF r.method = "get_snodes_for_pubkey" THEN process_snodes_by_pk(y, r)
             ELSE OnK(y, Result(Say(y.k, "no method"), 400))

process_client_req(x, r, st) ==
  LET k == x.k
      k1 == [k EXCEPT !.hdr_ephem = TRUE, !.enc_ok = r.encOk]
      xl == Call(x, "should_rate_limit_client")
  IN IF r.limited THEN OnK(xl, Result(Say(k, "too many requests"), 429))
     ELSE IF ~DISABLE_ENCRYPTION /\ ~r.ephem THEN OnK(xl, Say(k, "Missing field in header"))
     ELSE IF ~DISABLE_ENCRYPTION /\ ~r.decOk
       THEN OnK(xl, Result(Say(k1, "Could not decode/decrypt body"), 400))
     ELSE LET y == OnK(xl, IF DISABLE_ENCRYPTION THEN k ELSE k1)
          IN IF r.json = "bad" THEN OnK(y, Result(Say(y.k, "invalid json"), 400))
             ELSE IF r.json = "nomethod"
               THEN OnK(y, Result(Say(y.k, "invalid json: no method field"), 400))
             ELSE IF r.json = "noparams"
               THEN OnK(y, Result(Say(y.k, "invalid json: no params field"), 400))
             ELSE IF r.method = "store" THEN process_store(y, r)
             ELSE IF r.method = "retrieve" THEN process_retrieve(y, r, st)
             ELSE IF r.method = "get_snodes_for_pubkey" THEN process_snodes_by_pk(y, r)
             ELSE OnK(y, Result(Say(y.k, "no method"), 400))

\* The catch block around process_client_req in process_request: z is the
\* outcome of the try block.
catch_client_req(z) ==
  IF z.thrown
  THEN [OnK(z, Result(Say(z.k, "Exception caught while processing client request"), 500))
          EXCEPT !.thrown = FALSE]
  ELSE z

\* process_request: fill out response_ for the request read.
process_request(x0, r, st) ==
  LET x == OnK(x0, Result(x0.k, 500))
      k == x.k
  IN IF r.verb = "post"
       THEN (IF r.target = "/swarms/ping_test/v1" THEN process_swarm_req(x, r)
             ELSE IF ~r.ready
               THEN OnK(Call(x, "snode_ready"), Result(Say(k, "Service node is not ready"), 503))
             ELSE LET y == Call(x, "snode_ready")
                  IN IF r.target = "/storage_rpc/v1"
                       THEN catch_client_req(process_client_req(y, r, st))
                     ELSE IF r.target \in SwarmTargets THEN process_swarm_req(y, r)
                     ELSE OnK(y, Result(Say(k, "unknown target for POST"), 404)))
     ELSE IF r.verb = "get"
       THEN (IF r.target = "/get_stats/v1" THEN OnK(x, Result(Say(k, "stats"), 200))
             ELSE IF r.target = "/get_logs/v1"
               THEN (IF r.limited
                     THEN OnK(x, Result(Say(k, "Too many request, try again later."), 429))
                     ELSE OnK(x, Result(Say(k, "entries"), 200)))
             ELSE OnK(x, Result(Say(k, "unknown target for GET"), 404)))
     ELSE OnK(x, Result(k, 400))

\* The catch block around process_request in on_data: p is the outcome of the
\* try block.
catch_request(p) ==
  IF p.thrown THEN [OnK(p, Say(p.k, "e.what")) EXCEPT !.thrown = FALSE] ELSE p

\* The end of on_data writing the response whether delayed or not.
respond_always(x) ==
  IF x.crash THEN x ELSE OnK(x, write_response(x.k))

\* The end of on_data: write the response unless it is delayed (an abort of
\* the process has nothing after it).
respond_unless_delayed(x) ==
  IF x.crash THEN x
  ELSE IF ~x.k.delay_response THEN OnK(x, write_response(x.k))
  ELSE x

\* The body of read_request's on_data after a successful read.
on_data(k, r, st) ==
  respond_unless_delayed(catch_request(process_request(Ctx(k), r, st)))

\* ------------------------------------------------------- the request space
RECURSIVE SeqsUpTo(_, _)
SeqsUpTo(S, n) ==
  IF n = 0 THEN {<<>>}
  ELSE LET shorter == SeqsUpTo(S, n - 1)
       IN shorter \cup {Append(q, e) : q \in {t \in shorter : Len(t) = n - 1}, e \in S}

Batches == SeqsUpTo(Messages, MaxBatch)

PkLens == {get_user_pubkey_size - 1, get_user_pubkey_size, get_user_pubkey_size + 1}
DataLens == {MAX_MESSAGE_BODY - 1, MAX_MESSAGE_BODY, MAX_MESSAGE_BODY + 1}

\* A well-formed client store that every check admits.
R0 ==
  [verb |-> "post", target |-> "/storage_rpc/v1", ready |-> TRUE,
   hdrs |-> "both", known |-> TRUE, sigOk |-> TRUE, limited |-> FALSE,
   json |-> "ok", status |-> "SUCCESS", batch |-> <<>>, ndebug |-> TRUE,
   ephem |-> TRUE, decOk |-> TRUE, encOk |-> TRUE, method |-> "store",
   missing |-> {}, pk |-> "r1", pkLen |-> get_user_pubkey_size,
   dataLen |-> MAX_MESSAGE_BODY, forUs |-> TRUE, ttlOk |-> TRUE, tsOk |-> TRUE,
   powOk |-> TRUE, storeRes |-> "ok", hash |-> 1, lp |-> FALSE, retrOk |-> TRUE,
   lastHash |-> 0, throws |-> FALSE, pkHex |-> TRUE, front |-> None]

\* The envelope of a client request: ready and rate-limit answers, the
\* ephemeral-key header, decryption and the JSON-RPC frame.
Envelopes ==
  {[R0 EXCEPT !.ready = rd, !.limited = lim] : rd \in BOOLEAN, lim \in BOOLEAN}
  \cup {[R0 EXCEPT !.ephem = FALSE]}
  \cup {[R0 EXCEPT !.decOk = FALSE, !.encOk = e] : e \in BOOLEAN}
  \cup {[R0 EXCEPT !.json = j] : j \in {"bad", "nomethod", "noparams"}}
  \cup {[R0 EXCEPT !.method = "other"]}

\* The fields a request may lack: none, any one of them, or all.
Lacking(fields) == {{}, fields} \cup {{f} : f \in fields}

StoreReqs ==
  {[R0 EXCEPT !.missing = m, !.pkLen = pl, !.dataLen = dl, !.forUs = fu,
              !.ttlOk = t, !.tsOk = ts, !.powOk = pw] :
     m \in Lacking(StoreFields), pl \in PkLens, dl \in DataLens,
     fu \in BOOLEAN, t \in BOOLEAN, ts \in BOOLEAN, pw \in BOOLEAN}
  \cup {[R0 EXCEPT !.pk = pk, !.hash = h, !.storeRes = sr, !.dataLen = dl] :
          pk \in Recipients, h \in Hashes, sr \in {"ok", "fail", "throw"},
          dl \in DataLens \ {MAX_MESSAGE_BODY + 1}}

RetrieveReqs ==
  {[R0 EXCEPT !.method = "retrieve", !.missing = m, !.pkLen = pl, !.forUs = fu,
              !.lp = lp] :
     m \in Lacking(RetrieveFields), pl \in PkLens, fu \in BOOLEAN, lp \in BOOLEAN}
  \cup {[R0 EXCEPT !.method = "retrieve", !.lp = lp, !.retrOk = ro, !.lastHash = lh,
                   !.pk = pk] :
          lp \in BOOLEAN, ro \in BOOLEAN, lh \in {0} \cup Hashes, pk \in Recipients}

SnodesReqs ==
  {[R0 EXCEPT !.method = "get_snodes_for_pubkey", !.missing = m, !.pkLen = pl] :
     m \in Lacking(SnodesFields), pl \in PkLens}

\* Client requests of every method that the envelope may reject, among them
\* requests that fail a check of the method as well.
EnvelopeReqs ==
  {[e EXCEPT !.method = m, !.forUs = fu, !.lp = lp, !.powOk = pw] :
     e \in Envelopes,
     m \in {"store", "retrieve", "get_snodes_for_pubkey", "other"},
     fu \in BOOLEAN, lp \in BOOLEAN, pw \in BOOLEAN}

PeerChecks ==
  {[R0 EXCEPT !.ready = rd, !.hdrs = h, !.known = kn, !.sigOk = sg, !.limited = lim] :
     rd \in BOOLEAN, h \in {"none", "pk", "sig", "both"}, kn \in BOOLEAN,
     sg \in BOOLEAN, lim \in BOOLEAN}

SwarmReqs ==
  {[p EXCEPT !.target = t] : p \in PeerChecks, t \in SwarmTargets}
  \cup {[R0 EXCEPT !.target = "/swarms/push/v1", !.batch = b, !.ndebug = nd] :
          b \in Batches, nd \in BOOLEAN}
  \cup {[R0 EXCEPT !.target = "/swarms/push/v1", !.front = m] : m \in Messages}
  \cup {[R0 EXCEPT !.target = "/swarms/push_batch/v1", !.batch = b] : b \in Batches}
  \cup {[R0 EXCEPT !.target = "/swarms/storage_test/v1", !.json = j] :
          j \in {"bad", "nofields"}}
  \cup {[R0 EXCEPT !.target = "/swarms/storage_test/v1", !.status = st] :
          st \in TestStatuses}
  \cup {[R0 EXCEPT !.target = "/swarms/blockchain_test/v1", !.json = j] :
          j \in {"bad", "nofields", "ok"}}

OtherReqs ==
  {[R0 EXCEPT !.verb = "get", !.target = t, !.limited = lim] :
     t \in {"/get_stats/v1", "/get_logs/v1", "/unknown"}, lim \in BOOLEAN}
  \cup {[R0 EXCEPT !.target = "/unknown", !.ready = rd] : rd \in BOOLEAN}
  \cup {[R0 EXCEPT !.verb = "other"]}

\* Requests during which a std::exception is thrown: by the service node
\* operation a peer request is forwarded to, by the service node's retrieve or
\* get_snodes_by_pk, or by get<std::string>() on a store parameter that is
\* not a string.
ThrowReqs ==
  {[R0 EXCEPT !.throws = TRUE, !.target = t, !.batch = <<[pub_key |-> "r1", hash |-> 1]>>] :
     t \in ForwardTargets}
  \cup {[R0 EXCEPT !.throws = TRUE, !.method = m, !.lp = lp] :
          m \in {"store", "retrieve", "get_snodes_for_pubkey"}, lp \in BOOLEAN}

\* Client requests whose pubKey is not a string of hex digits, of the length
\* of the network and of other lengths.
NonHexReqs ==
  {[R0 EXCEPT !.method = m, !.pkHex = FALSE, !.pkLen = l, !.forUs = f] :
     m \in {"store", "retrieve", "get_snodes_for_pubkey"}, l \in PkLens, f \in BOOLEAN}

Requests == EnvelopeReqs \cup StoreReqs \cup RetrieveReqs \cup SnodesReqs
            \cup SwarmReqs \cup OtherReqs \cup ThrowReqs \cup NonHexReqs

\* The number of checks a request fails.  A handler stops at the first failing
\* check, so a request failing several answers as one failing only the first.
B(b) == IF b THEN 1 ELSE 0

Failures(r) ==
  B(~r.ready) + B(r.limited) + B(r.hdrs # "both") + B(~r.known) + B(~r.sigOk)
  + B(r.json # "ok") + B(~r.ephem) + B(~r.decOk) + B(r.missing # {})
  + B(r.pkLen # get_user_pubkey_size) + B(r.dataLen > MAX_MESSAGE_BODY)
  + B(~r.forUs) + B(~r.ttlOk) + B(~r.tsOk) + B(~r.powOk) + B(~r.retrOk)
  + B(r.throws) + B(~r.pkHex)

CoreRequests == {r \in Requests : Failures(r) <= 1}

\* Client stores that every check admits, retrieves with and without the
\* long-poll header, and a request arriving while the node is not ready.
ClientRequests ==
  {[R0 EXCEPT !.pk = pk, !.hash = h] : pk \in Recipients, h \in Hashes}
  \cup {[R0 EXCEPT !.method = "retrieve", !.pk = pk, !.lp = lp, !.retrOk = ro] :
          pk \in Recipients, lp \in BOOLEAN, ro \in BOOLEAN}
  \cup {[R0 EXCEPT !.ready = FALSE]}

\* ------------------------------------------------------------------ state
VARIABLES
  conns,       \* the connection_t objects, by slot
  listeners,   \* the service node's long-poll registry: recipient -> waiters
  store,       \* the service node's message store, in commit order
  req,         \* per connection: the request it processed (None: not recorded)
  called,      \* per connection: the collaborators its request handler called
  crashed,     \* the process was aborted
  uaf,         \* a callback ran against a destroyed connection
  timing,      \* the steady clock as the storage test of connection 1 reads it
  offline_nodes,  \* reachability_records_t::offline_nodes_
  now,         \* steady_clock::now() as the reachability records read it
  ret,         \* the last call on the reachability records and what it returned
  marked,      \* the peers set_reported was called for since their last expire
  all_valid_swarms_,  \* Swarm::all_valid_swarms_
  cur_swarm_id_,      \* Swarm::cur_swarm_id_
  events,      \* the SwarmEvents last derived (None: none yet)
  node_state,  \* the node's state: AwaitingSwarm, Ready or Dissolved
  snode_ready_,  \* what ServiceNode::snode_ready answers in the node's state
  options,     \* the command line as main reads it
  main_pc,     \* where main is
  exit_code,   \* the status main returned or exit was called with
  key_fetch,   \* wait_for_privkey: the request in flight, the delay, the keys
  acceptor,    \* accept_connection: the pending accept or the acceptor_timer
  sessions,    \* the HttpClientSession objects of the outbound requests
  tested       \* the peers the tester's latest rounds selected, oldest first

\* What no handler of a connection changes.
\* The swarm state of the node, and the state of startup and of the acceptor.
node == <<all_valid_swarms_, cur_swarm_id_, events, node_state, snode_ready_>>

startup == <<options, main_pc, exit_code, key_fetch, acceptor>>

outside == <<DISABLE_ENCRYPTION, node, startup, sessions, tested, timing, offline_nodes, now,
             ret, marked>>

vars == <<conns, listeners, store, req, called, crashed, uaf, outside>>

InitStores == SeqsUpTo(Messages, 1)

\* ---------------------------------------------- reachability_records_t
SnPubKeys == {"sn1", "sn2"}

\* reach_record_t::reach_record_t, run at time t.
reach_record_t(t) == [first_failure |-> t, last_tested |-> t, reported |-> FALSE]

\* record_unreachable reporting at the end of the grace period already.
record_unreachable_inclusive(recs, sn, t) ==
  IF recs[sn] = None
  THEN [records |-> [recs EXCEPT ![sn] = reach_record_t(t)], val |-> FALSE]
  ELSE LET it == [recs[sn] EXCEPT !.last_tested = t]
           elapsed == it.last_tested - it.first_failure
       IN [records |-> [recs EXCEPT ![sn] = it],
           val |-> IF it.reported THEN FALSE ELSE elapsed >= UNREACH_GRACE_PERIOD]

\* record_unreachable that starts the record afresh at every failure.
record_unreachable_restart(recs, sn, t) ==
  [records |-> [recs EXCEPT ![sn] = reach_record_t(t)], val |-> FALSE]

\* Each operation yields the records it leaves and the value it returns.
record_unreachable(recs, sn, t) ==
  IF recs[sn] = None
  THEN [records |-> [recs EXCEPT ![sn] = reach_record_t(t)], val |-> FALSE]
  ELSE LET it == [recs[sn] EXCEPT !.last_tested = t]
           elapsed == it.last_tested - it.first_failure
       IN [records |-> [recs EXCEPT ![sn] = it],
           val |-> IF it.reported THEN FALSE ELSE elapsed > UNREACH_GRACE_PERIOD]

\* expire dropping every record.
expire_all(recs, sn) ==
  [records |-> [other \in DOMAIN recs |-> None], val |-> recs[sn] # None]

expire(recs, sn) ==
  [records |-> [recs EXCEPT ![sn] = None], val |-> recs[sn] # None]

\* set_reported that marks nothing.
set_reported_not(recs, sn) == recs

set_reported(recs, sn) ==
  IF recs[sn] # None THEN [recs EXCEPT ![sn].reported = TRUE] ELSE recs

\* std::min_element over the records in iteration order, comparing
\* last_tested: the first element that no later one is smaller than.
RECURSIVE min_element(_, _, _)
min_element(order, recs, best) ==
  IF order = <<>> THEN best
  ELSE min_element(Tail(order), recs,
                   IF recs[Head(order)].last_tested < recs[best].last_tested
                   THEN Head(order) ELSE best)

\* std::max_element in place of std::min_element.
RECURSIVE max_element(_, _, _)
max_element(order, recs, best) ==
  IF order = <<>> THEN best
  ELSE max_element(Tail(order), recs,
                   IF recs[best].last_tested < recs[Head(order)].last_tested
                   THEN Head(order) ELSE best)

\* next_to_test selecting the most recently tested peer.
next_to_test_latest(recs, order) ==
  IF order = <<>> THEN None ELSE [value |-> max_element(Tail(order), recs, Head(order))]

\* The orders in which an unordered_map holding the given keys may iterate.
IterationOrders(keys) ==
  {o \in SeqsUpTo(keys, Cardinality(keys)) :
     Len(o) = Cardinality(keys) /\ \A sn \in keys : \E i \in 1..Len(o) : o[i] = sn}

\* boost::optional<sn_pub_key_t>: boost::none, or the key as value.
next_to_test(recs, order) ==
  IF order = <<>> THEN None ELSE [value |-> min_element(Tail(order), recs, Head(order))]

\* The storage test of connection 1 reads the clock: elapsed microseconds
\* since start_timestamp_, and the lateness of the repeat timer.
\* ------------------------------------------------------------ the swarms
\* Swarm ids are unsigned integers of IdBits bits.
Ring == 2 ^ IdBits

\* INVALID_SWARM_ID = UINT64_MAX: the largest id, reserved.
INVALID_SWARM_ID == Ring - 1

SwarmIds == 0..(Ring - 2)

\* Our own service node, and the other service nodes.
SnRecords == {"us", "other"}

\* SwarmInfo: a swarm id and the swarm's members.
SwarmInfos == [swarm_id : SwarmIds, snodes : {{"us"}, {"other"}}]

\* all_swarms_t as the daemon delivers it: swarms of distinct ids, our node a
\* member of one of them at most.
SwarmMaps ==
  {m \in SeqsUpTo(SwarmInfos, MaxSwarms) :
     \A i, j \in 1..Len(m) :
        i # j => /\ m[i].swarm_id # m[j].swarm_id
                 /\ ~("us" \in m[i].snodes /\ "us" \in m[j].snodes)}

\* Swarm maps over the smallest and the largest swarm id only.
SalvageMaps ==
  {m \in SwarmMaps : \A i \in 1..Len(m) : m[i].swarm_id \in {0, Ring - 2}}

\* |a - b| on the line of ids, without wrap-around.
linear_distance(a, b) == IF a > b THEN a - b ELSE b - a

\* The wrap-around distance min(|a - b|, 2^IdBits - |a - b|).
distance(a, b) ==
  LET d == linear_distance(a, b)
  IN IF d < Ring - d THEN d ELSE Ring - d

\* The swarm of all_swarms[i..] closest to the target without wrap-around,
\* given the best of all_swarms[1..i-1].
RECURSIVE closest_linear(_, _, _, _)
closest_linear(all_swarms, target, i, best) ==
  IF i > Len(all_swarms) THEN best
  ELSE LET sid == all_swarms[i].swarm_id
           closer == \/ best = INVALID_SWARM_ID
                     \/ linear_distance(sid, target) < linear_distance(best, target)
                     \/ /\ linear_distance(sid, target) = linear_distance(best, target)
                        /\ sid < best
       IN closest_linear(all_swarms, target, i + 1, IF closer THEN sid ELSE best)

\* get_swarm_by_pk measuring the distance without wrap-around.
get_swarm_by_pk_linear(all_swarms, target) ==
  closest_linear(all_swarms, target, 1, INVALID_SWARM_ID)

\* The swarm of all_swarms[i..] closest to the target, the smaller id on a
\* tie, given the best of all_swarms[1..i-1].
RECURSIVE closest(_, _, _, _)
closest(all_swarms, target, i, best) ==
  IF i > Len(all_swarms) THEN best
  ELSE LET sid == all_swarms[i].swarm_id
           closer == \/ best = INVALID_SWARM_ID
                     \/ distance(sid, target) < distance(best, target)
                     \/ /\ distance(sid, target) = distance(best, target)
                        /\ sid < best
       IN closest(all_swarms, target, i + 1, IF closer THEN sid ELSE best)

\* get_swarm_by_pk: the swarm a recipient key is placed in; target is the
\* low IdBits bits of the key.
get_swarm_by_pk(all_swarms, target) ==
  closest(all_swarms, target, 1, INVALID_SWARM_ID)

\* The low bits of the two recipients' keys: the smallest and the largest
\* target.
pubkey_to_swarm_space(pk) == IF pk = "r1" THEN 0 ELSE Ring - 1

\* Swarm::is_pubkey_for_us.
is_pubkey_for_us(all_swarms, cur, pk) ==
  get_swarm_by_pk(all_swarms, pubkey_to_swarm_space(pk)) = cur

\* Swarm::is_valid.
is_valid(cur) == cur # INVALID_SWARM_ID

\* The id of the swarm of the map our node is a member of.
swarm_of_us(swarms) ==
  IF \E i \in 1..Len(swarms) : "us" \in swarms[i].snodes
  THEN swarms[CHOOSE i \in 1..Len(swarms) : "us" \in swarms[i].snodes].swarm_id
  ELSE INVALID_SWARM_ID

\* derive_swarm_events reporting our swarm dissolved whenever we are a member
\* of no swarm of the new map.
derive_swarm_events_left(cur, swarms) ==
  [our_swarm_id |-> swarm_of_us(swarms),
   dissolved |-> cur # INVALID_SWARM_ID /\ swarm_of_us(swarms) = INVALID_SWARM_ID]

\* Swarm::derive_swarm_events: our swarm id in the new map, and whether the
\* swarm we were in is gone (new_swarms, new_snodes and our_swarm_members are
\* not followed).
derive_swarm_events(cur, swarms) ==
  [our_swarm_id |-> swarm_of_us(swarms),
   dissolved |-> /\ cur # INVALID_SWARM_ID
                 /\ \A i \in 1..Len(swarms) : swarms[i].swarm_id # cur]

\* The node's state after a swarm map was applied: Ready once the map
\* contains us, Dissolved when the swarm id becomes invalid after that.
next_node_state(s, cur) ==
  IF is_valid(cur) THEN "Ready"
  ELSE IF s = "AwaitingSwarm" THEN "AwaitingSwarm"
  ELSE "Dissolved"

Untimed == [elapsed |-> 0, late |-> 0]

\* ------------------------------------------------------- HttpClientSession
Sessions == 1..NumSessions

\* A request not yet handed to make_http_request.  used_callback_ and
\* needs_cleanup start as the class declares them (false, true).
NewSession ==
  [phase |-> "unissued",       \* the operation the session is at
   op |-> "none",              \* its asynchronous operation: pending, or ready to be handled
   ec |-> "none",              \* the error code the operation completed with
   socket |-> "unopened",      \* socket_
   deadline_timer |-> "off",   \* deadline_timer_
   used_callback |-> FALSE,    \* used_callback_
   needs_cleanup |-> TRUE,     \* needs_cleanup
   callbacks |-> <<>>,         \* the calls of callback_ posted, in order
   opens |-> 0,                \* record_socket_open calls
   closes |-> 0]               \* record_socket_close calls

SNodeErrors == {"NO_ERROR", "ERROR_OTHER", "NO_REACH", "HTTP_ERROR"}

\* trigger_callback leaving the deadline timer armed.
trigger_callback_keep_timer(s, error, body) ==
  [s EXCEPT !.callbacks = Append(@, [error |-> error, body |-> body]),
            !.used_callback = TRUE]

\* trigger_callback posting the callback twice.
trigger_callback_twice(s, error, body) ==
  [s EXCEPT !.callbacks = @ \o <<[error |-> error, body |-> body],
                                 [error |-> error, body |-> body]>>,
            !.used_callback = TRUE,
            !.deadline_timer = timer_cancel(@)]

\* HttpClientSession::trigger_callback
trigger_callback(s, error, body) ==
  [s EXCEPT !.callbacks = Append(@, [error |-> error, body |-> body]),
            !.used_callback = TRUE,
            !.deadline_timer = timer_cancel(@)]

\* HttpClientSession::clean_up: once only, shut down and close the socket if
\* it is open; closing it aborts the operation pending on it.
session_clean_up(s) ==
  IF ~s.needs_cleanup THEN s
  ELSE IF s.socket # "open" THEN [s EXCEPT !.needs_cleanup = FALSE]
  ELSE [s EXCEPT !.needs_cleanup = FALSE,
                 !.socket = "closed",
                 !.closes = @ + 1,
                 !.op = IF @ = "pending" THEN "ready" ELSE @,
                 !.ec = IF s.op = "pending" THEN "operation_aborted" ELSE @]

\* An asynchronous operation started on the socket: on a closed socket it
\* completes at once, with an error.
async_op(s, phase) ==
  IF s.socket = "open"
  THEN [s EXCEPT !.phase = phase, !.op = "pending", !.ec = "none"]
  ELSE [s EXCEPT !.phase = phase, !.op = "ready", !.ec = "error"]

Finished(s) == [s EXCEPT !.phase = "done", !.op = "none"]

\* HttpClientSession::start: async_connect opens the socket, and the deadline
\* timer is armed.
start(s) ==
  [async_op([s EXCEPT !.socket = "open"], "connect") EXCEPT !.deadline_timer = "armed"]

\* The handler of async_connect, with on_connect.
connect_handler(s) ==
  IF s.ec # "success" THEN Finished(trigger_callback(s, "NO_REACH", FALSE))
  ELSE async_op([s EXCEPT !.opens = @ + 1], "write")

\* HttpClientSession::on_write
on_write(s) ==
  IF s.ec # "success" THEN Finished(trigger_callback(s, "ERROR_OTHER", FALSE))
  ELSE async_op(s, "read")

\* HttpClientSession::on_read, res_ holding a status of class successful or not.
on_read(s, successful) ==
  IF s.ec \in {"success", "end_of_stream"}
  THEN (IF successful THEN Finished(trigger_callback(s, "NO_ERROR", TRUE))
        ELSE Finished(trigger_callback(s, "HTTP_ERROR", FALSE)))
  ELSE Finished(trigger_callback(s, "ERROR_OTHER", FALSE))

\* The handler of the deadline timer.
deadline_handler(s) ==
  IF s.deadline_timer = "expired"
  THEN session_clean_up([s EXCEPT !.deadline_timer = "done"])
  ELSE [s EXCEPT !.deadline_timer = "done"]

\* HttpClientSession::~HttpClientSession
destroy_session(s) ==
  [session_clean_up(IF s.used_callback THEN s
                    ELSE [s EXCEPT !.callbacks =
                            Append(@, [error |-> "ERROR_OTHER", body |-> FALSE])])
     EXCEPT !.phase = "destroyed"]

\* The node before the first swarm map arrives.
InitNode ==
  /\ all_valid_swarms_ = <<>>
  /\ cur_swarm_id_ = INVALID_SWARM_ID
  /\ events = None
  /\ node_state = "AwaitingSwarm"
  /\ snode_ready_ = FALSE

\* ------------------------------------------------- startup: main's inputs
EXIT_SUCCESS == 0
EXIT_FAILURE == 1
EXIT_INVALID_PORT == 2
\* exit_code while the process has not exited
RUNNING == -1

\* The command line and the machine as main finds them: whether parsing the
\* arguments throws (an unknown option, a --config-file that does not exist),
\* whether address and port are given, the two switches, whether the data
\* directory can be created, whether the log level parses, the two address
\* checks, sodium_init, and whether building the service node and the
\* listener throws.
Options ==
  {o \in [bad_args : BOOLEAN, has_addr : BOOLEAN, print_help : BOOLEAN,
          print_version : BOOLEAN, dir_ok : BOOLEAN, log_ok : BOOLEAN,
          ip_local : BOOLEAN, port_clash : BOOLEAN, sodium_ok : BOOLEAN,
          server_ok : BOOLEAN] :
     ~o.has_addr => ~o.ip_local}

\* What the daemon's answer to get_service_node_privkey can be.
Replies == {"keys", "error_code", "empty_body", "not_json", "missing_key", "not_hex"}

\* What async_accept can fail with.
AcceptErrors == {"too_many_files_open", "too_many_files_open_in_system",
                 "connection_aborted"}

\* What the wait on acceptor_timer can complete with.
TimerErrors == {"success", "operation_aborted", "other"}

\* The acceptor: accepts and timers count the handlers of async_accept and of
\* acceptor_timer that are outstanding, state names the one that was started
\* last and ec is the error of the last failed accept.
NoAcceptor == [state |-> "none", ec |-> "none", accepts |-> 0, timers |-> 0]

\* The handler of async_accept has been called.
accept_completed(a) == [a EXCEPT !.accepts = @ - 1]

\* The handler of acceptor_timer has been called.
acceptor_timer_completed(a) == [a EXCEPT !.timers = @ - 1]

\* acceptor_timer.expires_after(ACCEPT_DELAY) and async_wait.
acceptor_timer_wait(a) == [a EXCEPT !.timers = @ + 1, !.state = "backoff"]

\* accept_connection returning without starting an accept.
accept_connection_idle(a) == a

\* accept_connection: one async_accept is started.
accept_connection(a) == [a EXCEPT !.accepts = @ + 1, !.state = "accepting"]

\* main before the try block: the outcome of its checks, in their order.
main_checks(o) ==
  IF o.bad_args \/ (~o.print_version /\ ~o.print_help /\ ~o.has_addr)
    THEN [pc |-> "done", code |-> EXIT_FAILURE, aborted |-> FALSE]
  ELSE IF o.print_help
    THEN [pc |-> "done", code |-> EXIT_SUCCESS, aborted |-> FALSE]
  \* fs::create_directories throws outside every try block
  ELSE IF ~o.dir_ok
    THEN [pc |-> "done", code |-> RUNNING, aborted |-> TRUE]
  ELSE IF ~o.log_ok
    THEN [pc |-> "done", code |-> EXIT_FAILURE, aborted |-> FALSE]
  ELSE IF o.print_version
    THEN [pc |-> "done", code |-> EXIT_SUCCESS, aborted |-> FALSE]
  ELSE IF o.ip_local
    THEN [pc |-> "done", code |-> EXIT_FAILURE, aborted |-> FALSE]
  ELSE IF o.port_clash
    THEN [pc |-> "done", code |-> EXIT_INVALID_PORT, aborted |-> FALSE]
  ELSE IF ~o.sodium_ok
    THEN [pc |-> "done", code |-> EXIT_FAILURE, aborted |-> FALSE]
  ELSE [pc |-> "wait_for_privkey", code |-> RUNNING, aborted |-> FALSE]

\* A command line that passes every check of main.
ServingOptions ==
  [bad_args |-> FALSE, has_addr |-> TRUE, print_help |-> FALSE,
   print_version |-> FALSE, dir_ok |-> TRUE, log_ok |-> TRUE,
   ip_local |-> FALSE, port_clash |-> FALSE, sodium_ok |-> TRUE,
   server_ok |-> TRUE]

\* The process after main has reached http_server::run, accepting.
InitStarted ==
  /\ options = ServingOptions
  /\ main_pc = "run"
  /\ exit_code = RUNNING
  /\ key_fetch = [state |-> "received", attempts |-> 1]
  /\ acceptor = accept_connection(NoAcceptor)

\* The process as main is entered.
InitMain ==
  /\ options \in Options
  /\ main_pc = "main"
  /\ exit_code = RUNNING
  /\ key_fetch = [state |-> "none", attempts |-> 0]
  /\ acceptor = NoAcceptor

\* The process but for its reachability records.
InitProcess ==
  /\ InitNode
  /\ sessions = [i \in Sessions |-> NewSession]
  /\ tested = <<>>
  /\ listeners = [pk \in Recipients |-> {}]
  /\ req = [c \in Conns |-> None]
  /\ called = [c \in Conns |-> {}]
  /\ crashed = FALSE
  /\ uaf = FALSE
  /\ DISABLE_ENCRYPTION \in BOOLEAN
  /\ now = 0
  /\ ret = None
  /\ marked = {}

InitServer ==
  /\ InitProcess
  /\ offline_nodes = [sn \in SnPubKeys |-> None]

InitCommon ==
  /\ InitStarted
  /\ InitServer

\* The server serving one connection at a time, over a store that may hold a
\* message already.
Init ==
  /\ InitCommon
  /\ timing = Untimed
  /\ conns = [c \in Conns |-> IF c = 1 THEN NewConn ELSE [NewConn EXCEPT !.pc = "unused"]]
  /\ store \in InitStores

\* The server with every connection slot accepting, over an empty store.
InitPoll ==
  /\ InitCommon
  /\ timing = Untimed
  /\ conns = [c \in Conns |-> NewConn]
  /\ store = <<>>

\* ------------------------------------------- service node: the registry
register_listener(ls, pk, c) == [ls EXCEPT ![pk] = @ \cup {c}]

remove_listener(ls, pk, c) == [ls EXCEPT ![pk] = @ \ {c}]

Woken(new, pk) == \E i \in 1..Len(new) : new[i].pub_key = pk

FirstFor(new, pk) ==
  new[CHOOSE i \in 1..Len(new) :
        /\ new[i].pub_key = pk
        /\ \A j \in 1..(i - 1) : new[j].pub_key # pk]

\* notify_listeners for every newly stored message, in order: each waiter of
\* the recipient is notified with the message, and the recipient's list is
\* emptied.
notify_listeners_conns(cs, ls, new) ==
  [l \in Conns |->
     IF \E pk \in Recipients : l \in ls[pk] /\ Woken(new, pk)
     THEN notify(cs[l], FirstFor(new, (CHOOSE pk \in Recipients : l \in ls[pk] /\ Woken(new, pk))))
     ELSE cs[l]]

notify_listeners_registry(ls, new) ==
  [pk \in Recipients |-> IF Woken(new, pk) THEN {} ELSE ls[pk]]

\* clean_up: close the stream and leave the registry.
clean_up(k) == do_close(k)

clean_up_registry(ls, k, c) ==
  IF k.nctx # None THEN remove_listener(ls, k.nctx.pubkey, c) ELSE ls

\* req and called describe the request a connection has just processed, until
\* the connection's next step; they are kept only where Next asks for them.
Record(c, r, ops, keep) ==
  /\ req' = [req EXCEPT ![c] = IF keep THEN r ELSE None]
  /\ called' = [called EXCEPT ![c] = IF keep THEN ops ELSE {}]

Forget(c) ==
  /\ req' = [req EXCEPT ![c] = None]
  /\ called' = [called EXCEPT ![c] = {}]

\* ---------------------------------------------------------------- actions
\* accept_connection's handler on success: connection_t::start.
Accept(c) ==
  /\ ~crashed
  /\ main_pc = "run"
  /\ acceptor.accepts > 0
  /\ conns[c].pc = "free"
  /\ conns' = [conns EXCEPT ![c] = [NewConn EXCEPT !.pc = "handshake",
                                                   !.deadline = "armed",
                                                   !.io_live = TRUE]]
  /\ Forget(c)
  /\ acceptor' = accept_connection(accept_completed(acceptor))
  /\ UNCHANGED <<DISABLE_ENCRYPTION, node, options, main_pc, exit_code, key_fetch,
                 sessions, tested, timing, offline_nodes, now, ret, marked>>
  /\ UNCHANGED <<listeners, store, crashed, uaf>>

\* An asynchronous stream operation can complete without error only if it
\* was started on an open stream and the socket has not been closed since.
CanSucceed(k) == k.io_live /\ k.stream # "closed"

\* on_handshake cancelling the deadline of a failed handshake without clean_up.
on_handshake_cancel_only(k, ok) ==
  LET k1 == [k EXCEPT !.opens = @ + 1]
  IN IF ~ok
     THEN [k1 EXCEPT !.deadline = timer_cancel(@), !.pc = "end"]
     ELSE [k1 EXCEPT !.pc = "read", !.io_live = (k1.stream = "open")]

on_handshake(k, ok) ==
  LET k1 == [k EXCEPT !.opens = @ + 1]
  IN IF ~ok
     THEN [clean_up(k1) EXCEPT !.deadline = timer_cancel(@), !.pc = "end"]
     ELSE [k1 EXCEPT !.pc = "read", !.io_live = (k1.stream = "open")]

OnHandshake(c) ==
  /\ ~crashed
  /\ conns[c].pc = "handshake"
  /\ \E ok \in BOOLEAN :
       /\ ok => CanSucceed(conns[c])
       /\ conns' = [conns EXCEPT ![c] = on_handshake(@, ok)]
  /\ Forget(c)
  /\ UNCHANGED outside
  /\ UNCHANGED <<listeners, store, crashed, uaf>>

\* read_request's on_data with an error code.
OnDataError(c) ==
  /\ ~crashed
  /\ conns[c].pc = "read"
  /\ conns' = [conns EXCEPT ![c] =
                 [clean_up(@) EXCEPT !.deadline = timer_cancel(@), !.pc = "end"]]
  /\ listeners' = clean_up_registry(listeners, conns[c], c)
  /\ Forget(c)
  /\ UNCHANGED outside
  /\ UNCHANGED <<store, crashed, uaf>>

\* read_request's on_data after a complete request was read.
OnData(c, reqs, keep) ==
  /\ ~crashed
  /\ conns[c].pc = "read"
  /\ CanSucceed(conns[c])
  /\ \E r \in reqs :
       LET x == on_data(conns[c], r, store)
           new == new_messages(store, x.ingest)
           k == IF x.k.pc = "read" THEN [x.k EXCEPT !.pc = "wait"] ELSE x.k
           ls == notify_listeners_registry(listeners, new)
       IN /\ Len(store) + Len(new) <= MaxStore
          /\ crashed' = x.crash
          /\ store' = save_if_new(store, x.ingest)
          /\ conns' = [notify_listeners_conns(conns, listeners, new) EXCEPT ![c] = k]
          /\ listeners' = IF x.reg THEN register_listener(ls, r.pk, c) ELSE ls
          /\ Record(c, r, x.called, keep)
  /\ UNCHANGED <<uaf, outside>>

\* The completion handler of write_response's async_write.
OnWrite(c) ==
  /\ ~crashed
  /\ conns[c].pc = "write"
  /\ \E ok \in BOOLEAN :
       /\ ok => CanSucceed(conns[c])
       /\ conns' = [conns EXCEPT ![c] =
                      [clean_up(@) EXCEPT !.deadline = timer_cancel(@),
                                          !.pc = "end",
                                          !.delivered = ok]]
  /\ listeners' = clean_up_registry(listeners, conns[c], c)
  /\ Forget(c)
  /\ UNCHANGED outside
  /\ UNCHANGED <<store, crashed, uaf>>

\* SESSION_TIME_LIMIT has passed since the connection was constructed.
DeadlineExpire(c) ==
  /\ ~crashed
  /\ conns[c].deadline = "armed"
  /\ conns' = [conns EXCEPT ![c].deadline = "expired"]
  /\ Forget(c)
  /\ UNCHANGED outside
  /\ UNCHANGED <<listeners, store, crashed, uaf>>

\* The handler registered by register_deadline.
DeadlineHandler(c) ==
  /\ ~crashed
  /\ conns[c].deadline \in {"expired", "aborted"}
  /\ IF conns[c].deadline = "aborted"
     THEN /\ conns' = [conns EXCEPT ![c].deadline = "done"]
          /\ UNCHANGED listeners
     ELSE /\ conns' = [conns EXCEPT ![c] = [clean_up(@) EXCEPT !.deadline = "done"]]
          /\ listeners' = clean_up_registry(listeners, conns[c], c)
  /\ Forget(c)
  /\ UNCHANGED outside
  /\ UNCHANGED <<store, crashed, uaf>>

\* LONG_POLL_TIMEOUT has passed since poll_db armed the notification timer.
NotificationExpire(c) ==
  /\ ~crashed
  /\ conns[c].ntimer = "armed"
  /\ conns' = [conns EXCEPT ![c].ntimer = "expired"]
  /\ Forget(c)
  /\ UNCHANGED outside
  /\ UNCHANGED <<listeners, store, crashed, uaf>>

\* The timer handler answering a notification only, silent on expiry.
notification_handler_silent(k) ==
  LET k1 == [k EXCEPT !.ntimer = "done"]
  IN IF k.ntimer = "aborted"
     THEN respond_with_messages(k1, IF k.nctx.message # None
                                    THEN <<k.nctx.message>> ELSE <<>>)
     ELSE k1

\* The handler poll_db registered on the notification timer.
notification_handler(k) ==
  LET k1 == [k EXCEPT !.ntimer = "done"]
  IN IF k.ntimer = "aborted"
     THEN respond_with_messages(k1, IF k.nctx.message # None
                                    THEN <<k.nctx.message>> ELSE <<>>)
     ELSE respond_with_messages(k1, <<>>)

NotificationHandler(c) ==
  /\ ~crashed
  /\ conns[c].ntimer \in {"expired", "aborted"}
  /\ conns' = [conns EXCEPT ![c] = notification_handler(@)]
  /\ listeners' = remove_listener(listeners, conns[c].nctx.pubkey, c)
  /\ Forget(c)
  /\ UNCHANGED outside
  /\ UNCHANGED <<store, crashed, uaf>>

\* The repeat timer of a storage test fires TEST_RETRY_PERIOD after it was
\* armed, and the test runs again.
RepeatTimerHandler(c) ==
  /\ ~crashed
  /\ conns[c].rtimer = "armed"
  /\ \/ /\ \E status \in TestStatuses :
            /\ (status = "RETRY" /\ elapsed_lt_1min(conns[c]))
                 => conns[c].repetition_count < MaxRetry
            /\ conns' = [conns EXCEPT ![c] =
                           process_storage_test_req(Ctx([@ EXCEPT !.rtimer = "done"]), status).k]
        /\ UNCHANGED crashed
     \* the service node throws: nothing catches in the timer's handler, and
     \* the exception leaves io_context::run and ends the process
     \/ /\ conns' = [conns EXCEPT ![c].rtimer = "done"]
        /\ crashed' = TRUE
  /\ Forget(c)
  /\ UNCHANGED outside
  /\ UNCHANGED <<listeners, store, uaf>>

\* The service node answers the blockchain test: the callback of
\* process_blockchain_test_req.
blockchain_test_callback(k) ==
  write_response(Say(Result([k EXCEPT !.bc = FALSE], 200), "res_height"))

BlockchainAnswer(c) ==
  /\ ~crashed
  /\ conns[c].bc
  /\ IF conns[c].pc = "destroyed"
     THEN /\ uaf' = TRUE
          /\ conns' = [conns EXCEPT ![c] = NewConn]
     ELSE /\ conns' = [conns EXCEPT ![c] = blockchain_test_callback(@)]
          /\ UNCHANGED uaf
  /\ Forget(c)
  /\ UNCHANGED outside
  /\ UNCHANGED <<listeners, store, crashed>>

\* on_shutdown: the TLS shutdown completed; the socket is closed.
on_shutdown(k) ==
  [k EXCEPT !.shutdowns = @ - 1, !.closes = @ + 1, !.stream = "closed"]

OnShutdown(c) ==
  /\ ~crashed
  /\ conns[c].shutdowns > 0
  /\ conns' = [conns EXCEPT ![c] = on_shutdown(@)]
  /\ Forget(c)
  /\ UNCHANGED outside
  /\ UNCHANGED <<listeners, store, crashed, uaf>>

\* A connection is kept alive by the handlers that hold a shared pointer to
\* it: the pending stream operation, the timers, the TLS shutdown, and the
\* registry.  The blockchain-test callback holds only a plain pointer.
Referenced(c) ==
  \/ conns[c].pc \in {"handshake", "read", "write"}
  \/ timer_pending(conns[c].deadline)
  \/ timer_pending(conns[c].ntimer)
  \/ timer_pending(conns[c].rtimer)
  \/ conns[c].shutdowns > 0
  \/ \E pk \in Recipients : c \in listeners[pk]

\* ~connection_t: the last reference is gone; the slot serves the next
\* accepted socket.
Destroy(c) ==
  /\ ~crashed
  /\ conns[c].pc \in {"wait", "end"}
  /\ ~Referenced(c)
  /\ conns' = [conns EXCEPT ![c] =
                 IF @.bc THEN [NewConn EXCEPT !.pc = "destroyed", !.bc = TRUE]
                 ELSE NewConn]
  /\ Forget(c)
  /\ UNCHANGED outside
  /\ UNCHANGED <<listeners, store, crashed, uaf>>

\* One connection slot, served again after its connection is destroyed.
Next ==
  \E c \in Conns :
    \/ Accept(c)
    \/ OnHandshake(c)
    \/ OnDataError(c)
    \/ OnData(c, CoreRequests, FALSE)
    \/ OnWrite(c)
    \/ DeadlineExpire(c)
    \/ DeadlineHandler(c)
    \/ NotificationExpire(c)
    \/ NotificationHandler(c)
    \/ RepeatTimerHandler(c)
    \/ BlockchainAnswer(c)
    \/ OnShutdown(c)
    \/ Destroy(c)

Spec == Init /\ [][Next]_vars

\* One connection from accept to the end of its request, never replaced; the
\* request it processed and the collaborators called are kept for one step.
NextReq ==
  \E c \in Conns :
    \/ Accept(c)
    \/ OnHandshake(c)
    \/ OnDataError(c)
    \/ OnData(c, Requests, TRUE)
    \/ OnWrite(c)
    \/ DeadlineExpire(c)
    \/ DeadlineHandler(c)
    \/ NotificationExpire(c)
    \/ NotificationHandler(c)
    \/ RepeatTimerHandler(c)
    \/ BlockchainAnswer(c)
    \/ OnShutdown(c)

SpecReq == Init /\ [][NextReq]_vars

\* Clients on every connection slot, storing and retrieving concurrently.
NextPoll ==
  \E c \in Conns :
    \/ Accept(c)
    \/ OnHandshake(c)
    \/ OnDataError(c)
    \/ OnData(c, ClientRequests, FALSE)
    \/ OnWrite(c)
    \/ DeadlineExpire(c)
    \/ DeadlineHandler(c)
    \/ NotificationExpire(c)
    \/ NotificationHandler(c)
    \/ OnShutdown(c)

SpecPoll == InitPoll /\ [][NextPoll]_vars

\* One connection as in SpecReq, with time passing and the io_context running
\* the handlers of the deadline timer and of the TLS shutdown: the steady
\* timer expires, a queued handler is run, an asynchronous shutdown completes.
\* Nothing is assumed of the client, the peers or the other timers.
Fairness ==
  \A c \in Conns :
    /\ WF_vars(DeadlineExpire(c))
    /\ WF_vars(DeadlineHandler(c))
    /\ WF_vars(OnShutdown(c))

SpecFair == Init /\ [][NextReq]_vars /\ Fairness

\* One connection as in SpecFair, where in addition the repeat timer of a
\* storage test fires and its handler runs, and a started write completes.
FairnessTest ==
  \A c \in Conns :
    /\ WF_vars(RepeatTimerHandler(c))
    /\ WF_vars(OnWrite(c))
    /\ WF_vars(DeadlineExpire(c))
    /\ WF_vars(DeadlineHandler(c))
    /\ WF_vars(OnShutdown(c))

SpecTest == Init /\ [][NextReq]_vars /\ FairnessTest

\* ------------------------------------------- the storage test against time
\* Connection 1 has completed its handshake; the first request is read
\* EarlyAttempt or LateAttempt after the connection was constructed, and every
\* repeat timer fires MinLate or MaxLate after its expiry.
InitRetry ==
  /\ InitCommon
  /\ timing \in {[elapsed |-> t0, late |-> l] :
                   t0 \in {EarlyAttempt, LateAttempt}, l \in {MinLate, MaxLate}}
  /\ conns = [c \in Conns |->
                IF c = 1
                THEN on_handshake([NewConn EXCEPT !.pc = "handshake",
                                                  !.deadline = "armed",
                                                  !.io_live = TRUE], TRUE)
                ELSE [NewConn EXCEPT !.pc = "unused"]]
  /\ store = <<>>

\* Storage tests with a well-formed body from an admitted sender.
TestReqs ==
  {[R0 EXCEPT !.target = "/swarms/storage_test/v1", !.status = st] : st \in TestStatuses}

\* The repeat timer fires TEST_RETRY_PERIOD, and the timer's lateness, after
\* it was armed, and the test runs again.  The session deadline, set at the
\* connection's construction, has expired once a minute has elapsed.
TimedRepeat(c) ==
  /\ ~crashed
  /\ c = 1
  /\ conns[c].rtimer = "armed"
  /\ LET t == timing.elapsed + TEST_RETRY_PERIOD + timing.late
         k0 == [conns[c] EXCEPT !.rtimer = "done",
                                !.deadline = IF t >= ONE_MINUTE /\ @ = "armed"
                                             THEN "expired" ELSE @]
     IN /\ timing' = [timing EXCEPT !.elapsed = t]
        /\ \/ /\ \E status \in TestStatuses :
                  LET x == process_storage_test_req(Ctx(k0), status)
                  IN /\ conns' = [conns EXCEPT ![c] = x.k]
                     /\ Record(c, [R0 EXCEPT !.target = "/swarms/storage_test/v1",
                                             !.status = status], x.called, TRUE)
              /\ UNCHANGED crashed
           \/ /\ conns' = [conns EXCEPT ![c] = k0]
              /\ crashed' = TRUE
              /\ Forget(c)
  /\ UNCHANGED <<listeners, store, uaf, DISABLE_ENCRYPTION, node, startup, sessions, tested, offline_nodes, now, ret,
                 marked>>

NextRetry ==
  \E c \in Conns :
    \/ OnData(c, TestReqs, TRUE)
    \/ TimedRepeat(c)
    \/ OnWrite(c)
    \/ DeadlineHandler(c)
    \/ OnShutdown(c)

SpecRetry == InitRetry /\ [][NextRetry]_vars

\* ------------------------------------------------ the reachability records
\* The steady clock advances, by a minute or by a grace period.
Tick(d) ==
  /\ now + d <= MaxNow
  /\ d = 1 => (now % UNREACH_GRACE_PERIOD) < MaxDrift
  /\ now' = now + d
  /\ UNCHANGED <<conns, listeners, store, req, called, crashed, uaf,
                 DISABLE_ENCRYPTION, node, startup, sessions, tested, timing, offline_nodes, ret, marked>>

RecordUnreachable(sn) ==
  LET res == record_unreachable(offline_nodes, sn, now)
  IN /\ offline_nodes' = res.records
     /\ ret' = [op |-> "record_unreachable", sn |-> sn, val |-> res.val]
     /\ UNCHANGED <<conns, listeners, store, req, called, crashed, uaf,
                    DISABLE_ENCRYPTION, node, startup, sessions, tested, timing, now, marked>>

Expire(sn) ==
  LET res == expire(offline_nodes, sn)
  IN /\ offline_nodes' = res.records
     /\ ret' = [op |-> "expire", sn |-> sn, val |-> res.val]
     /\ marked' = marked \ {sn}
     /\ UNCHANGED <<conns, listeners, store, req, called, crashed, uaf,
                    DISABLE_ENCRYPTION, node, startup, sessions, tested, timing, now>>

SetReported(sn) ==
  /\ offline_nodes' = set_reported(offline_nodes, sn)
  /\ ret' = [op |-> "set_reported", sn |-> sn, val |-> None]
  /\ marked' = marked \cup {sn}
  /\ UNCHANGED <<conns, listeners, store, req, called, crashed, uaf,
                 DISABLE_ENCRYPTION, node, startup, sessions, tested, timing, now>>

NextToTest ==
  /\ \E order \in IterationOrders({sn \in SnPubKeys : offline_nodes[sn] # None}) :
       ret' = [op |-> "next_to_test", sn |-> None,
               val |-> next_to_test(offline_nodes, order)]
  /\ UNCHANGED <<conns, listeners, store, req, called, crashed, uaf,
                 DISABLE_ENCRYPTION, node, startup, sessions, tested, timing, offline_nodes, now, marked>>

NextReach ==
  \/ \E d \in {1, UNREACH_GRACE_PERIOD} : Tick(d)
  \/ \E sn \in SnPubKeys : RecordUnreachable(sn)
  \/ \E sn \in SnPubKeys : Expire(sn)
  \/ \E sn \in SnPubKeys : SetReported(sn)
  \/ NextToTest

\* The reachability records alone, from no record at all.
SpecReach == InitPoll /\ [][NextReach]_vars

\* ------------------------------------------------------- the swarm updates
\* A swarm map arrives from the daemon: derive_swarm_events and update_state.
\* snode_ready's answer in the new state is any of the given ones.
UpdateSwarms(maps, answers) ==
  /\ ~crashed
  /\ \E swarms \in maps, answer \in answers :
       LET ev == derive_swarm_events(cur_swarm_id_, swarms)
       IN /\ events' = ev
          /\ all_valid_swarms_' = swarms
          /\ cur_swarm_id_' = ev.our_swarm_id
          /\ node_state' = next_node_state(node_state, ev.our_swarm_id)
          /\ snode_ready_' = answer
  /\ ret' = None
  /\ UNCHANGED <<conns, listeners, store, req, called, crashed, uaf,
                 DISABLE_ENCRYPTION, startup, sessions, tested, timing, offline_nodes, now, marked>>

\* A recipient key is placed.
GetSwarmByPk(target) ==
  /\ ret' = [op |-> "get_swarm_by_pk", target |-> target,
             val |-> get_swarm_by_pk(all_valid_swarms_, target)]
  /\ UNCHANGED <<conns, listeners, store, req, called, crashed, uaf,
                 DISABLE_ENCRYPTION, node, startup, sessions, tested, timing, offline_nodes, now, marked>>

NextSwarm ==
  \/ UpdateSwarms(SwarmMaps, {TRUE})
  \/ \E target \in 0..(Ring - 1) : GetSwarmByPk(target)

\* The swarm of the node alone, from the first swarm map on.
SpecSwarm == InitPoll /\ [][NextSwarm]_vars

\* Client stores and retrieves that pass every check of the request layer,
\* for either recipient.
NodeRequests ==
  {[R0 EXCEPT !.method = m, !.pk = pk, !.ready = rd, !.forUs = f] :
     m \in {"store", "retrieve"}, pk \in Recipients, rd \in BOOLEAN, f \in BOOLEAN}

\* The requests the node answers in its state: snode_ready and
\* is_pubkey_for_us answer as the state has it.
ServedRequests ==
  {r \in NodeRequests :
     /\ r.ready = snode_ready_
     /\ r.forUs = is_pubkey_for_us(all_valid_swarms_, cur_swarm_id_, r.pk)}

NextNode ==
  \/ UpdateSwarms(SalvageMaps, BOOLEAN)
  \/ \E c \in Conns :
       \/ Accept(c)
       \/ OnHandshake(c)
       \/ OnDataError(c)
       \/ OnData(c, ServedRequests, TRUE)
       \/ OnWrite(c)
       \/ DeadlineExpire(c)
       \/ DeadlineHandler(c)
       \/ OnShutdown(c)

\* One connection served by a node whose swarm map changes.
SpecNode == Init /\ [][NextNode]_vars

\* ----------------------------------------------------------------- claims
\* The response of a retrieve: 200 and exactly the given messages.
messages_response(k, items) ==
  /\ k.resp # None
  /\ k.resp.status = 200
  /\ k.resp.body = <<[t |-> "messages", items |-> items]>>

\* The message held by the waiter's notification context, as a list.
slot_items(k) == IF k.nctx.message # None THEN <<k.nctx.message>> ELSE <<>>

\* C1: a long-poll waiter that has responded sent 200 with the message that
\* notify delivered into its notification context, and the empty list only if
\* no message was delivered, for every interleaving of notify with the expiry
\* of the notification timer.
C1_NotifiedWaiterSendsMessage ==
  \A c \in Conns :
    (conns[c].nctx # None /\ conns[c].resp # None)
      => messages_response(conns[c], slot_items(conns[c]))

\* A waiter that was notified before its timer expired has sent the message.
C1_Witness ==
  \E c \in Conns :
    /\ conns[c].nctx # None
    /\ conns[c].nctx.message # None
    /\ messages_response(conns[c], <<conns[c].nctx.message>>)

\* A connection is registered in the long-poll registry.
registered(c) == \E pk \in Recipients : c \in listeners[pk]

\* A connection is suspended in a long-poll: registered for the recipient, its
\* notification timer armed, nothing written.
suspended(c, pk) ==
  /\ c \in listeners[pk]
  /\ conns[c].nctx # None
  /\ conns[c].ntimer = "armed"
  /\ conns[c].writes = 0
  /\ conns[c].resp = None

\* C2: a client retrieve whose store query returned suspends (listener registered,
\* notification timer armed, nothing written) if and only if it carries the
\* long-poll header and the query succeeded with no messages; when the query
\* succeeds otherwise the query result is written at once, no listener is
\* registered and no timer is armed; no other request registers a listener.
C2_SuspendIffLongPollAndEmpty ==
  \A c \in Conns :
    req[c] # None =>
      LET r == req[c]
          items == retrieve(store, r.pk, r.lastHash)
      IN IF "retrieve" \in called[c] /\ ~r.throws
         THEN /\ suspended(c, r.pk) <=> (r.lp /\ r.retrOk /\ items = <<>>)
              /\ (r.retrOk /\ ~(r.lp /\ items = <<>>))
                   => /\ messages_response(conns[c], items)
                      /\ ~registered(c)
                      /\ conns[c].ntimer = "off"
         ELSE ~registered(c) /\ conns[c].ntimer = "off"

\* A long-poll retrieve found no messages and is suspended.
C2_Witness ==
  \E c \in Conns :
    /\ req[c] # None
    /\ "retrieve" \in called[c]
    /\ req[c].lp
    /\ suspended(c, req[c].pk)

\* C3 (amended): a long-poll that has written nothing has its notification
\* timer pending, and the timer's handler always writes a response: 200 with
\* the empty list when the timer expired, 200 with what notify delivered when
\* it was cancelled.  Whether the client receives it is not promised.
C3_TimerHandlerResponds ==
  /\ [](\A c \in Conns :
          (conns[c].nctx # None /\ conns[c].writes = 0)
            => timer_pending(conns[c].ntimer))
  /\ [][\A c \in Conns :
          (conns[c].ntimer \in {"expired", "aborted"} /\ conns'[c].ntimer = "done")
            => /\ conns'[c].writes = conns[c].writes + 1
               /\ messages_response(conns'[c],
                                     IF conns[c].ntimer = "expired" THEN <<>>
                                     ELSE slot_items(conns[c]))]_vars

\* The timer of an unnotified long-poll expired and the empty list was written.
C3_Witness ==
  \E c \in Conns :
    /\ conns[c].nctx # None
    /\ conns[c].nctx.message = None
    /\ conns[c].ntimer = "done"
    /\ messages_response(conns[c], <<>>)

\* C3 as stated: the client of a long-poll always receives the response, so
\* the response is never written to a stream the server has already shut down.
C3_ClientReceivesResponse ==
  \A c \in Conns :
    (conns[c].nctx # None /\ conns[c].resp # None /\ conns[c].pc = "write")
      => conns[c].io_live

\* C4: in every reachable state a connection whose socket has been closed, or
\* that has written its response, is not registered in the long-poll registry.
C4_ClosedOrRespondedNotRegistered ==
  \A c \in Conns :
    registered(c) => (conns[c].stream # "closed" /\ conns[c].resp = None)

\* The session deadline fired on a suspended long-poll: the waiter left the
\* registry and its socket was closed.
C4_Witness ==
  \E c \in Conns :
    /\ conns[c].nctx # None
    /\ conns[c].deadline = "done"
    /\ conns[c].stream = "closed"
    /\ ~registered(c)

\* A connection object exists for the slot.
accepted(c) == conns[c].pc \notin {"free", "unused"}

ForwardOps == {"process_push", "process_push_batch", "process_storage_test_req",
               "perform_blockchain_test"}

\* Both signature headers, a known sender, a verified signature, and the rate
\* limiter admitting the sender.
peer_admitted(r) == r.hdrs = "both" /\ r.known /\ r.sigOk /\ ~r.limited

\* C6: a request to a forwarded target reaches process_push,
\* process_push_batch, process_storage_test_req or perform_blockchain_test
\* only if it carries both signature headers, its sender is known, its
\* signature verifies and the rate limiter admits it; otherwise nothing of the
\* service node runs beyond the readiness and known-address lookups (and the
\* rate limiter, which is asked last).
C6_ForwardedOnlyIfAdmitted ==
  \A c \in Conns :
    (req[c] # None /\ req[c].verb = "post" /\ req[c].target \in ForwardTargets)
      => /\ (called[c] \cap ForwardOps # {}) => peer_admitted(req[c])
         /\ ~peer_admitted(req[c])
              => called[c] \subseteq {"snode_ready", "is_snode_address_known",
                                       "should_rate_limit"}

\* An admitted push was forwarded to the service node.
C6_Witness ==
  \E c \in Conns :
    /\ req[c] # None
    /\ req[c].target = "/swarms/push/v1"
    /\ peer_admitted(req[c])
    /\ "process_push" \in called[c]

\* C7: a request to a signed-peer target that lacks a signature header, comes
\* from an unknown service node or carries a signature that does not verify is
\* answered with status 401.
C7_UnsignedIs401 ==
  \A c \in Conns :
    (/\ req[c] # None
     /\ req[c].verb = "post"
     /\ req[c].target \in ForwardTargets
     /\ req[c].ready
     /\ (req[c].hdrs # "both" \/ ~req[c].known \/ ~req[c].sigOk))
      => (conns[c].resp # None /\ conns[c].resp.status = 401)

\* A request from an unknown service node was answered 401.
C7_Witness ==
  \E c \in Conns :
    /\ req[c] # None
    /\ req[c].target \in ForwardTargets
    /\ req[c].ready
    /\ req[c].hdrs = "both"
    /\ ~req[c].known
    /\ conns[c].resp # None
    /\ conns[c].resp.status = 401

\* A POST, other than the ping, read while snode_ready returns false.
not_ready_post(c) ==
  /\ req[c] # None
  /\ req[c].verb = "post"
  /\ req[c].target # "/swarms/ping_test/v1"
  /\ ~req[c].ready

\* The request was answered 503 and nothing but snode_ready was called: no
\* handler ran, no listener was registered, no timer armed.
answered_503_unforwarded(c) ==
  /\ conns[c].resp # None
  /\ conns[c].resp.status = 503
  /\ called[c] = {"snode_ready"}
  /\ ~registered(c)
  /\ conns[c].ntimer = "off"
  /\ conns[c].rtimer = "off"
  /\ ~conns[c].bc

\* C8: while snode_ready returns false every POST other than the ping is
\* answered 503 with the reason in its body, and is forwarded to no handler:
\* nothing is processed and no listener is registered.
C8_NotReadyIs503WithReason ==
  \A c \in Conns :
    not_ready_post(c)
      => /\ answered_503_unforwarded(c)
         /\ conns[c].resp.body = <<Tag("Service node is not ready")>>

\* A client request read while the node is not ready was answered 503 and
\* reached no handler.
C8_Witness ==
  \E c \in Conns :
    /\ not_ready_post(c)
    /\ req[c].target = "/storage_rpc/v1"
    /\ answered_503_unforwarded(c)

\* A client store or retrieve for a pubkey that another swarm owns.
wrong_swarm_req(c) ==
  /\ req[c] # None
  /\ req[c].verb = "post"
  /\ req[c].target = "/storage_rpc/v1"
  /\ req[c].method \in {"store", "retrieve"}
  /\ ~req[c].forUs

\* The answer of handle_wrong_swarm: 421 and the members of the owning swarm.
answered_421(c) ==
  /\ conns[c].resp # None
  /\ conns[c].resp.status = 421
  /\ conns[c].resp.body = <<Tag("snodes")>>
  /\ "get_snodes_by_pk" \in called[c]

\* Nothing was evaluated past the ownership check, and nothing registered.
past_ownership_untouched(c) ==
  /\ called[c] \cap {"parseTTL", "parseTimestamp", "checkPoW", "process_store",
                      "retrieve", "register_listener"} = {}
  /\ ~registered(c)
  /\ conns[c].ntimer = "off"

\* C9: a client store or retrieve for which is_pubkey_for_us returns false is
\* answered 421 with the members of the owning swarm; and no client store or
\* retrieve for a pubkey of another swarm has any effect: the store and the
\* registry are unchanged, and TTL, timestamp and proof of work are not
\* evaluated.
C9_WrongSwarmIs421 ==
  [][\A c \in Conns :
       (req[c] = None /\ wrong_swarm_req(c)')
         => /\ store' = store
            /\ listeners' = listeners
            /\ past_ownership_untouched(c)'
            /\ ("is_pubkey_for_us" \in called'[c]) => answered_421(c)']_vars

\* A store for a pubkey of another swarm was answered 421.
C9_Witness ==
  \E c \in Conns :
    /\ wrong_swarm_req(c)
    /\ req[c].method = "store"
    /\ "is_pubkey_for_us" \in called[c]
    /\ answered_421(c)

\* The request reaches connection_t::process_store: a POST to /storage_rpc/v1
\* on a ready node, admitted by the rate limiter, decrypted where the channel
\* is encrypted, with a JSON body naming the method store and its params,
\* each of them a string where present (get<std::string>() does not throw).
client_store(c) ==
  /\ req[c] # None
  /\ req[c].verb = "post"
  /\ req[c].target = "/storage_rpc/v1"
  /\ req[c].ready
  /\ ~req[c].limited
  /\ (DISABLE_ENCRYPTION \/ (req[c].ephem /\ req[c].decOk))
  /\ req[c].json = "ok"
  /\ req[c].method = "store"
  /\ ~req[c].throws

Accepted == [status |-> 0, body |-> "accepted"]

\* The answer the stated order of checks gives to a store.
store_verdict(r) ==
  IF r.missing \cap StoreFields # {}
    THEN [status |-> 400, body |-> "invalid json: no field"]
  ELSE IF r.pkLen # get_user_pubkey_size
    THEN [status |-> 400, body |-> "Pubkey must be N characters long"]
  ELSE IF r.dataLen > MAX_MESSAGE_BODY
    THEN [status |-> 400, body |-> "Message body exceeds maximum allowed length"]
  ELSE IF ~r.forUs THEN [status |-> 421, body |-> "snodes"]
  ELSE IF ~r.ttlOk THEN [status |-> 403, body |-> "Provided TTL is not valid."]
  ELSE IF ~r.tsOk THEN [status |-> 406, body |-> "Timestamp error: check your clock"]
  ELSE IF ~r.powOk THEN [status |-> 432, body |-> "difficulty"]
  ELSE Accepted

\* C10: a client store reaches the service node's process_store only when
\* every check passes; otherwise the first failing check, in the order missing
\* field (400), pubkey length (400), data longer than MAX_MESSAGE_BODY (400),
\* foreign swarm (421), TTL (403), timestamp (406), proof of work (432 with
\* the difficulty), decides the response, and the store is left unchanged.
C10_StoreChecksInOrder ==
  [][\A c \in Conns :
       (req[c] = None /\ client_store(c)')
         => LET v == store_verdict(req'[c])
            IN /\ ("process_store" \in called'[c]) <=> (v = Accepted)
               /\ v # Accepted
                    => /\ conns'[c].resp # None
                       /\ conns'[c].resp.status = v.status
                       /\ conns'[c].resp.body = <<Tag(v.body)>>
                       /\ store' = store]_vars

\* A store whose data is exactly MAX_MESSAGE_BODY bytes long passed every
\* check and was committed.
C10_Witness ==
  \E c \in Conns :
    /\ client_store(c)
    /\ req[c].dataLen = MAX_MESSAGE_BODY
    /\ "process_store" \in called[c]
    /\ conns[c].resp # None
    /\ conns[c].resp.status = 200
    /\ InStore(store, [pub_key |-> req[c].pk, hash |-> req[c].hash])

\* A request that reaches connection_t::process_client_req.
client_req(r) ==
  r # None /\ r.verb = "post" /\ r.target = "/storage_rpc/v1" /\ r.ready

\* A request to a signed-peer target that reaches process_swarm_req.
peer_req(r) ==
  r # None /\ r.verb = "post" /\ r.target \in ForwardTargets /\ r.ready

\* The connection has written 429 and its request left no trace: no timer
\* armed, no listener registered, no blockchain test outstanding.
answered_429_no_effect(c) ==
  /\ conns[c].resp # None
  /\ conns[c].resp.status = 429
  /\ ~registered(c)
  /\ conns[c].ntimer = "off"
  /\ conns[c].rtimer = "off"
  /\ ~conns[c].bc

\* C11: every client request consults the rate limiter and, when the limiter
\* says to limit, is answered 429 having called nothing else; a signed-peer
\* request reaches the service node's push, push_batch, storage test or
\* blockchain test only after the rate limiter was consulted, and when the
\* limiter says to limit it is answered 429 and none of them runs.  In both
\* cases the store and the registry are unchanged.
C11_RateLimitedIs429 ==
  [][\A c \in Conns :
       (req[c] = None /\ req'[c] # None)
         => /\ client_req(req'[c])
                 => /\ "should_rate_limit_client" \in called'[c]
                    /\ req'[c].limited
                         => /\ answered_429_no_effect(c)'
                            /\ called'[c] = {"snode_ready", "should_rate_limit_client"}
                            /\ store' = store
                            /\ listeners' = listeners
            /\ peer_req(req'[c])
                 => /\ (called'[c] \cap ForwardOps # {})
                         => "should_rate_limit" \in called'[c]
                    /\ ("should_rate_limit" \in called'[c] /\ req'[c].limited)
                         => /\ answered_429_no_effect(c)'
                            /\ called'[c] \cap ForwardOps = {}
                            /\ store' = store
                            /\ listeners' = listeners]_vars

\* A long-poll retrieve that the rate limiter refused was answered 429.
C11_Witness ==
  \E c \in Conns :
    /\ client_req(req[c])
    /\ req[c].method = "retrieve"
    /\ req[c].lp
    /\ req[c].limited
    /\ "should_rate_limit_client" \in called[c]
    /\ answered_429_no_effect(c)

\* The message store failed while the connection served a client store (the
\* service node's process_store returned false or threw) or a client retrieve
\* (the service node's retrieve returned false).
store_failed(c) ==
  /\ client_req(req[c])
  /\ \/ "process_store" \in called[c] /\ req[c].storeRes \in {"fail", "throw"}
     \/ "retrieve" \in called[c] /\ ~req[c].retrOk

\* C12: whenever the message store fails while serving a client store or a
\* client retrieve, a response with status 500 is written to the client and
\* the process keeps running.
C12_StoreFailureIs500 ==
  \A c \in Conns :
    store_failed(c)
      => /\ conns[c].resp # None
         /\ conns[c].resp.status = 500
         /\ ~crashed

\* The service node's process_store threw, and the store was answered 500.
C12_Witness ==
  \E c \in Conns :
    /\ store_failed(c)
    /\ req[c].method = "store"
    /\ req[c].storeRes = "throw"
    /\ conns[c].resp # None
    /\ conns[c].resp.status = 500
    /\ ~crashed

\* A std::exception was thrown while the connection's request was processed.
threw(c) == req[c] # None /\ "throw" \in called[c]

\* The response written has status 500 and carries what was streamed into
\* body_stream_ by a catch block.
answered_500_diagnostic(c) ==
  /\ conns[c].resp # None
  /\ conns[c].resp.status = 500
  /\ \E i \in 1..Len(conns[c].resp.body) :
        conns[c].resp.body[i].t \in {"e.what",
                                     "Exception caught while processing client request"}

\* C13: if processing a request throws, the process keeps running and the
\* client is sent a response with status 500 and a diagnostic body, on every
\* endpoint.
C13_ExceptionIs500 ==
  \A c \in Conns : threw(c) => (~crashed /\ answered_500_diagnostic(c))

\* get_snodes_by_pk threw under a get_snodes_for_pubkey request, and the
\* client was sent 500 with the diagnostic.
C13_Witness ==
  \E c \in Conns :
    /\ threw(c)
    /\ req[c].method = "get_snodes_for_pubkey"
    /\ ~crashed
    /\ answered_500_diagnostic(c)

\* The connection's request was a storage test that reached
\* connection_t::process_storage_test_req (well-formed body, admitted sender)
\* and the service node answered it.
storage_test_begun(c) ==
  /\ req[c] # None
  /\ req[c].target = "/swarms/storage_test/v1"
  /\ "process_storage_test_req" \in called[c]
  /\ "throw" \notin called[c]

\* The answers of a storage test.
TestAnswers == {"status: OK, value", "status: wrong request", "status: other"}

\* A 200 response carrying one of the answers was written.
test_answered(c) ==
  /\ conns[c].resp # None
  /\ conns[c].resp.status = 200
  /\ \E i \in 1..Len(conns[c].resp.body) : conns[c].resp.body[i].t \in TestAnswers

\* C14: every storage test with a well-formed body is eventually answered
\* with a 200 response carrying the status OK, 'wrong request' or 'other',
\* whatever number of retries took place.
C14_StorageTestAnswered ==
  \A c \in Conns : storage_test_begun(c) ~> (crashed \/ test_answered(c))

\* A storage test was answered OK after it had been retried.
C14_Witness ==
  \E c \in Conns :
    /\ conns[c].repetition_count > 0
    /\ conns[c].rtimer = "done"
    /\ conns[c].resp # None
    /\ conns[c].resp.status = 200
    /\ \E i \in 1..Len(conns[c].body_stream) :
          conns[c].body_stream[i].t = "status: OK, value"

\* The retries that fit into a minute at one per TEST_RETRY_PERIOD.
MaxRetries == ONE_MINUTE \div TEST_RETRY_PERIOD

\* C15 (amended): a run of the storage test schedules a retry exactly when
\* the service node answers RETRY and less than a minute has elapsed since the
\* connection was created; once a minute has elapsed no retry is scheduled; a
\* SUCCESS at any attempt writes the OK response and schedules nothing; and
\* one request performs at most ONE_MINUTE / TEST_RETRY_PERIOD = 1200 retries.
C15_RetryOnlyWithinAMinute ==
  /\ [](\A c \in Conns : conns[c].repetition_count <= MaxRetries)
  /\ [][\A c \in Conns :
          ("process_storage_test_req" \in called'[c])
            => LET retried == /\ conns'[c].repetition_count = conns[c].repetition_count + 1
                              /\ conns'[c].rtimer = "armed"
                   settled == /\ conns'[c].repetition_count = conns[c].repetition_count
                              /\ conns'[c].rtimer # "armed"
               IN /\ retried \/ settled
                  /\ retried <=> (req'[c].status = "RETRY" /\ timing'.elapsed < ONE_MINUTE)
                  /\ req'[c].status = "SUCCESS"
                       => /\ conns'[c].writes = conns[c].writes + 1
                          /\ conns'[c].resp.status = 200
                          /\ conns'[c].body_stream[Len(conns'[c].body_stream)]
                               = Tag("status: OK, value")]_vars

\* The test was retried 1200 times; the last re-run found the minute over and
\* scheduled nothing.
C15_Witness ==
  \E c \in Conns :
    /\ conns[c].repetition_count = MaxRetries
    /\ conns[c].rtimer = "done"
    /\ timing.elapsed >= ONE_MINUTE

\* C15 as stated: one request performs fewer than 1200 retries.
C15_FewerThan1200Retries ==
  \A c \in Conns : conns[c].repetition_count < MaxRetries

\* The step is a call of the named operation on the reachability records.
reach_call(op) == now' = now /\ ret' # None /\ ret'.op = op

\* C16: record_unreachable(pk) on a peer without a record creates one with
\* first_failure = last_tested = now and reported = false, and returns false;
\* on a peer with a record it sets last_tested to now, leaves first_failure
\* and reported as they are, and returns true exactly when the record is not
\* reported and more than 120 minutes lie between first_failure and now: at
\* exactly 120 minutes it returns false.
C16_RecordUnreachable ==
  [][reach_call("record_unreachable")
       => LET sn == ret'.sn
              old == offline_nodes[sn]
          IN IF old = None
             THEN /\ offline_nodes'[sn] = [first_failure |-> now, last_tested |-> now,
                                           reported |-> FALSE]
                  /\ ret'.val = FALSE
             ELSE /\ offline_nodes'[sn] = [first_failure |-> old.first_failure,
                                           last_tested |-> now,
                                           reported |-> old.reported]
                  /\ ret'.val = (~old.reported
                                 /\ now - old.first_failure > UNREACH_GRACE_PERIOD)
                  /\ (now - old.first_failure = UNREACH_GRACE_PERIOD)
                       => ret'.val = FALSE]_vars

\* record_unreachable returned false for a record that failed first exactly
\* 120 minutes ago and is not reported.
C16_Witness ==
  /\ ret # None
  /\ ret.op = "record_unreachable"
  /\ ret.val = FALSE
  /\ offline_nodes[ret.sn] # None
  /\ ~offline_nodes[ret.sn].reported
  /\ offline_nodes[ret.sn].last_tested = now
  /\ now - offline_nodes[ret.sn].first_failure = UNREACH_GRACE_PERIOD

\* C17 (amended): set_reported(pk) on a peer that has a record marks the
\* record reported and changes nothing else of it; a reported record stays
\* reported until expire(pk) removes it; and record_unreachable(pk) on a
\* reported record returns false.  So a peer is reported at most once between
\* two expires.
C17_ReportedOnce ==
  [][/\ reach_call("set_reported")
          => (offline_nodes[ret'.sn] # None
                => offline_nodes'[ret'.sn] = [offline_nodes[ret'.sn] EXCEPT !.reported = TRUE])
     /\ \A sn \in SnPubKeys :
          (offline_nodes[sn] # None /\ offline_nodes[sn].reported)
            => \/ offline_nodes'[sn] # None /\ offline_nodes'[sn].reported
               \/ offline_nodes'[sn] = None /\ reach_call("expire") /\ ret'.sn = sn
     /\ reach_call("record_unreachable")
          => ((offline_nodes[ret'.sn] # None /\ offline_nodes[ret'.sn].reported)
                => ret'.val = FALSE)]_vars

\* A peer that was reported after its grace period failed again, later, and
\* record_unreachable returned false.
C17_Witness ==
  /\ ret # None
  /\ ret.op = "record_unreachable"
  /\ ret.val = FALSE
  /\ ret.sn \in marked
  /\ offline_nodes[ret.sn] # None
  /\ offline_nodes[ret.sn].reported
  /\ now - offline_nodes[ret.sn].first_failure > UNREACH_GRACE_PERIOD

\* C17 as stated: after set_reported(pk), whether or not pk had a record,
\* every record_unreachable(pk) returns false until expire(pk).
C17_NeverAfterSetReported ==
  (ret # None /\ ret.op = "record_unreachable" /\ ret.sn \in marked) => ret.val = FALSE

\* C18: expire(pk) returns true exactly when pk had a record, leaves pk
\* without a record and every other peer's record as it was; the
\* record_unreachable(pk) that follows starts a fresh record, so that
\* record_unreachable returns true only when more than 120 minutes have
\* passed since the first failure after the last expire.
C18_ExpireRemovesOnlyThatPeer ==
  [][/\ reach_call("expire")
          => /\ ret'.val = (offline_nodes[ret'.sn] # None)
             /\ offline_nodes'[ret'.sn] = None
             /\ \A other \in SnPubKeys \ {ret'.sn} :
                  offline_nodes'[other] = offline_nodes[other]
     /\ reach_call("record_unreachable")
          => /\ offline_nodes[ret'.sn] = None
                  => /\ offline_nodes'[ret'.sn] = reach_record_t(now)
                     /\ ret'.val = FALSE
             /\ ret'.val = TRUE
                  => /\ offline_nodes[ret'.sn] # None
                     /\ now - offline_nodes[ret'.sn].first_failure > UNREACH_GRACE_PERIOD]_vars

\* expire removed the record of one peer and kept the record of the other.
C18_Witness ==
  /\ ret # None
  /\ ret.op = "expire"
  /\ ret.val = TRUE
  /\ offline_nodes[ret.sn] = None
  /\ \E other \in SnPubKeys \ {ret.sn} : offline_nodes[other] # None

\* C19: next_to_test returns none exactly when there is no record; otherwise
\* it returns a peer that has a record and whose last_tested no other record
\* is below; and it changes no record.
C19_NextToTestIsLeastRecent ==
  [][reach_call("next_to_test")
       => /\ offline_nodes' = offline_nodes
          /\ (ret'.val = None) <=> (\A sn \in SnPubKeys : offline_nodes[sn] = None)
          /\ ret'.val # None
               => /\ ret'.val.value \in SnPubKeys
                  /\ offline_nodes[ret'.val.value] # None
                  /\ \A sn \in SnPubKeys :
                       offline_nodes[sn] # None
                         => offline_nodes[ret'.val.value].last_tested
                              <= offline_nodes[sn].last_tested]_vars

\* Two peers are offline, tested at different times, and next_to_test
\* returned the one tested earlier.
C19_Witness ==
  /\ ret # None
  /\ ret.op = "next_to_test"
  /\ ret.val # None
  /\ \E sn \in SnPubKeys :
       /\ offline_nodes[sn] # None
       /\ offline_nodes[ret.val.value].last_tested < offline_nodes[sn].last_tested

\* The connection's request is POST /swarms/ping_test/v1.
ping_req(c) ==
  /\ req[c] # None
  /\ req[c].verb = "post"
  /\ req[c].target = "/swarms/ping_test/v1"

\* C20: POST /swarms/ping_test/v1 is answered 200 whatever the signature
\* headers, the sender, the rate limiter and the readiness of the node are;
\* and it leaves the node as it was: nothing is stored, no listener is
\* registered, no test is run, no timer is armed.
C20_PingIs200 ==
  [][\A c \in Conns :
       (req[c] = None /\ ping_req(c)')
         => /\ conns'[c].resp # None
            /\ conns'[c].resp.status = 200
            /\ store' = store
            /\ listeners' = listeners
            /\ ~crashed'
            /\ called'[c] \subseteq {"is_snode_address_known", "should_rate_limit"}
            /\ conns'[c].ntimer = "off"
            /\ conns'[c].rtimer = "off"
            /\ ~conns'[c].bc]_vars

\* A ping without signature headers, read while the node is not ready, was
\* answered 200.
C20_Witness ==
  \E c \in Conns :
    /\ ping_req(c)
    /\ req[c].hdrs = "none"
    /\ ~req[c].ready
    /\ conns[c].resp # None
    /\ conns[c].resp.status = 200

\* ------------------------------------------------------------------- C21
\* The connection's request is read in this step, by a node in the Dissolved
\* state.
read_while_dissolved(c) ==
  /\ node_state = "Dissolved"
  /\ req[c] = None
  /\ req'[c] # None

\* C21: a client store read by a node in the Dissolved state is rejected as
\* not ready (503, nothing stored), and a client retrieve read in that state
\* is served: the store is queried and its messages for the recipient are
\* sent with 200.
C21_DissolvedRejectsStoresServesRetrieves ==
  [][\A c \in Conns :
       read_while_dissolved(c)
         => /\ req'[c].method = "store"
                 => /\ conns'[c].resp # None
                    /\ conns'[c].resp.status = 503
                    /\ store' = store
            /\ req'[c].method = "retrieve"
                 => /\ "retrieve" \in called'[c]
                    /\ messages_response(conns'[c],
                                         retrieve(store, req'[c].pk, req'[c].lastHash))]_vars

\* A node in the Dissolved state has answered a client store and holds a
\* message.
C21_Witness ==
  \E c \in Conns :
    /\ node_state = "Dissolved"
    /\ req[c] # None
    /\ req[c].method = "store"
    /\ conns[c].resp # None
    /\ store # <<>>

\* ------------------------------------------------------------------- C22
\* The request read in this step reaches the handler of store, retrieve or
\* get_snodes_for_pubkey with a pubKey parameter that is a string.
pubkey_req(c) ==
  /\ req[c] # None
  /\ req[c].verb = "post"
  /\ req[c].target = "/storage_rpc/v1"
  /\ req[c].ready
  /\ ~req[c].limited
  /\ (DISABLE_ENCRYPTION \/ (req[c].ephem /\ req[c].decOk))
  /\ req[c].json = "ok"
  /\ req[c].method \in {"store", "retrieve", "get_snodes_for_pubkey"}
  /\ req[c].missing = {}
  /\ ~req[c].throws

\* The recipient id is a hex string of the length fixed for the network.
valid_user_pubkey(r) == r.pkHex /\ r.pkLen = get_user_pubkey_size

\* C22: store, retrieve and get_snodes_for_pubkey answer 400 to every pubKey
\* that is not a hex string of the network's length, before swarm ownership
\* is evaluated, before the swarm of the key is looked up and before the
\* store is read or written.
C22_OnlyHexPubkeyAccepted ==
  [][\A c \in Conns :
       (req[c] = None /\ pubkey_req(c)' /\ ~valid_user_pubkey(req'[c]))
         => /\ conns'[c].resp # None
            /\ conns'[c].resp.status = 400
            /\ called'[c] \cap {"is_pubkey_for_us", "get_snodes_by_pk", "retrieve",
                                "process_store"} = {}
            /\ store' = store]_vars

\* A pubKey of the right length that is not hex went through the ownership
\* check.
C22_Witness ==
  \E c \in Conns :
    /\ pubkey_req(c)
    /\ ~req[c].pkHex
    /\ req[c].pkLen = get_user_pubkey_size
    /\ "is_pubkey_for_us" \in called[c]

\* ------------------------------------------------------------------- C23
\* The ids of the swarms of a map.
swarm_ids(swarms) == {swarms[i].swarm_id : i \in 1..Len(swarms)}

\* The distance from a to b around the ring of ids, the shorter way.
wrap_around(a, b) ==
  LET up == (a - b) % Ring
      down == (b - a) % Ring
  IN IF up < down THEN up ELSE down

\* C23: the placement of a key is INVALID_SWARM_ID for an empty map, and for
\* any other map the id of one of its swarms, never INVALID_SWARM_ID, at the
\* least wrap-around distance from the key's low bits, the smallest such id.
\* The result is fixed by the key and the set of swarm ids, for the smallest
\* and the largest target like for any other.
C23_PlacementIsNearestSwarm ==
  (ret # None /\ ret.op = "get_swarm_by_pk")
    => LET ids == swarm_ids(all_valid_swarms_)
       IN IF ids = {} THEN ret.val = INVALID_SWARM_ID
          ELSE /\ ret.val \in ids
               /\ ret.val # INVALID_SWARM_ID
               /\ \A s \in ids :
                    \/ wrap_around(ret.val, ret.target) < wrap_around(s, ret.target)
                    \/ /\ wrap_around(ret.val, ret.target) = wrap_around(s, ret.target)
                       /\ ret.val <= s

\* The largest target was placed in the swarm of the smallest id, across the
\* wrap-around, on a tie with the swarm of the largest id.
C23_Witness ==
  /\ ret # None
  /\ ret.op = "get_swarm_by_pk"
  /\ ret.target = Ring - 1
  /\ swarm_ids(all_valid_swarms_) = {0, Ring - 2}
  /\ ret.val = 0

\* ------------------------------------------------------------------- C24
\* The ids of the swarms of a map our node is a member of.
our_swarms(swarms) ==
  {swarms[i].swarm_id : i \in {j \in 1..Len(swarms) : "us" \in swarms[j].snodes}}

\* C24: when a new swarm map is applied, the events derived report dissolved
\* exactly when our node was a member of a swarm of the old map and no swarm
\* of the new map has that swarm's id.
C24_DissolvedIffOurSwarmGone ==
  [][(<<all_valid_swarms_, events>>' # <<all_valid_swarms_, events>>)
       => (events'.dissolved
             <=> /\ our_swarms(all_valid_swarms_) # {}
                 /\ our_swarms(all_valid_swarms_) \cap swarm_ids(all_valid_swarms_') = {})]_vars

\* Our swarm was dissolved while another swarm exists.
C24_Witness ==
  /\ events # None
  /\ events.dissolved
  /\ all_valid_swarms_ # <<>>

\* ------------------------------------------------------------------- C25
\* No two entries of the store have the same recipient and hash.
one_entry_each(st) ==
  \A i, j \in 1..Len(st) :
     (st[i].pub_key = st[j].pub_key /\ st[i].hash = st[j].hash) => i = j

\* The messages a request hands to the store: the batch of a push or a
\* push_batch, the message of a client store.
messages_of(r) ==
  IF r.target = "/swarms/push/v1" /\ r.batch = <<>> /\ r.front # None
  THEN {r.front}
  ELSE IF r.target \in {"/swarms/push/v1", "/swarms/push_batch/v1"}
  THEN {r.batch[i] : i \in 1..Len(r.batch)}
  ELSE {[pub_key |-> r.pk, hash |-> r.hash]}

stored(st) == {st[i] : i \in 1..Len(st)}

\* C25: the store holds one entry at most for a recipient and hash; ingesting
\* any batch twice back to back leaves the store as ingesting it once does;
\* and a client store, a push or a push_batch whose messages are all stored
\* already leaves the store as it is, while any other keeps the entries there
\* are, in their order.
C25_IngestIsIdempotent ==
  /\ [](/\ one_entry_each(store)
        /\ \A b \in Batches :
             save_if_new(save_if_new(store, b), b) = save_if_new(store, b))
  /\ [][/\ Len(store') >= Len(store)
        /\ SubSeq(store', 1, Len(store)) = store
        /\ \A c \in Conns :
             (req[c] = None /\ req'[c] # None /\ messages_of(req'[c]) \subseteq stored(store))
               => store' = store]_vars

\* A push_batch of two messages, one of them stored before, was ingested: the
\* store holds both, once each.
C25_Witness ==
  \E c \in Conns :
    /\ req[c] # None
    /\ req[c].target = "/swarms/push_batch/v1"
    /\ "process_push_batch" \in called[c]
    /\ Len(req[c].batch) = 2
    /\ Len(store) = 2
    /\ req[c].batch[1] = store[1]
    /\ req[c].batch[2] # store[1]
    /\ store[2] = req[c].batch[2]

\* A request to POST /swarms/push/v1 that passed validate_snode_request and
\* whose process_push does not throw.
validated_push(r) ==
  /\ peer_req(r)
  /\ r.target = "/swarms/push/v1"
  /\ peer_admitted(r)
  /\ ~r.throws

\* C26: every body processed at POST /swarms/push/v1 deserializes to exactly
\* one message: for a request that passed peer validation the assertion holds
\* (the process is not aborted), process_push is called and the message of the
\* body is what the store was handed.
C26_PushIsSingleMessage ==
  \A c \in Conns :
    validated_push(req[c])
      => /\ Len(req[c].batch) = 1
         /\ ~crashed
         /\ "process_push" \in called[c]
         /\ \A i \in 1..Len(req[c].batch) : req[c].batch[i] \in stored(store)

\* A validated push of one message was handed to process_push and stored.
C26_Witness ==
  \E c \in Conns :
    /\ validated_push(req[c])
    /\ Len(req[c].batch) = 1
    /\ ~crashed
    /\ "process_push" \in called[c]
    /\ req[c].batch[1] \in stored(store)

\* ---------------------------------------------- startup and the accept loop
\* What startup and the accept loop leave alone.
served == <<conns, listeners, store, req, called, uaf, DISABLE_ENCRYPTION,
            node, sessions, tested, timing, offline_nodes, now, ret, marked>>

\* main from parse_args to sodium_init.
Main ==
  /\ main_pc = "main"
  /\ LET m == main_checks(options)
     IN /\ main_pc' = m.pc
        /\ exit_code' = m.code
        /\ crashed' = m.aborted
  /\ UNCHANGED <<options, key_fetch, acceptor, served>>

\* make_http_request as wait_for_privkey uses it: when the address of the
\* daemon does not resolve it returns without ever calling key_fetch, and the
\* io_context, left without work, lets ioc_.run() return.
make_arqmad_request(resolved) ==
  IF resolved
  THEN /\ key_fetch' = [state |-> "in_flight", attempts |-> key_fetch.attempts + 1]
       /\ UNCHANGED main_pc
  ELSE /\ key_fetch' = [state |-> "unset", attempts |-> key_fetch.attempts + 1]
       /\ main_pc' = "start_server"

\* wait_for_privkey up to ioc_.run().
WaitForPrivkey ==
  /\ main_pc = "wait_for_privkey"
  /\ key_fetch.state = "none"
  /\ \E resolved \in BOOLEAN : make_arqmad_request(resolved)
  /\ UNCHANGED <<options, exit_code, acceptor, crashed, served>>

\* The key_fetch callback: anything but three hex keys of the right length
\* throws into its own catch and arms the delay; the keys end the run of the
\* io_context.
KeyFetch ==
  /\ main_pc = "wait_for_privkey"
  /\ key_fetch.state = "in_flight"
  /\ \E res \in Replies :
       IF res = "keys"
       THEN /\ key_fetch' = [key_fetch EXCEPT !.state = "received"]
            /\ main_pc' = "start_server"
       ELSE /\ key_fetch' = [key_fetch EXCEPT !.state = "delay"]
            /\ UNCHANGED main_pc
  /\ UNCHANGED <<options, exit_code, acceptor, crashed, served>>

\* The handler of the 5 s delay: the request is made again.
DelayExpired ==
  /\ main_pc = "wait_for_privkey"
  /\ key_fetch.state = "delay"
  /\ key_fetch.attempts < MaxFetch
  /\ \E resolved \in BOOLEAN : make_arqmad_request(resolved)
  /\ UNCHANGED <<options, exit_code, acceptor, crashed, served>>

\* The rest of main's try block, up to ioc.run() in http_server::run: the
\* keys are derived, the service node and the acceptor are built and the
\* first async_accept is started; any exception ends main with EXIT_FAILURE.
StartServer ==
  /\ main_pc = "start_server"
  /\ IF options.server_ok
     THEN /\ main_pc' = "run"
          /\ acceptor' = accept_connection(acceptor)
          /\ UNCHANGED exit_code
     ELSE /\ main_pc' = "done"
          /\ exit_code' = EXIT_FAILURE
          /\ UNCHANGED acceptor
  /\ UNCHANGED <<options, key_fetch, crashed, served>>

\* The handler of async_accept called with an error.
AcceptFailed ==
  /\ ~crashed
  /\ main_pc = "run"
  /\ acceptor.accepts > 0
  /\ \E ec \in AcceptErrors :
       IF ec = "too_many_files_open"
       THEN /\ crashed' = TRUE
            /\ acceptor' = [accept_completed(acceptor) EXCEPT !.ec = ec]
       ELSE /\ acceptor' =
                 acceptor_timer_wait([accept_completed(acceptor) EXCEPT !.ec = ec])
            /\ UNCHANGED crashed
  /\ UNCHANGED <<options, main_pc, exit_code, key_fetch, served>>

\* The handler of acceptor_timer, ACCEPT_DELAY after a failed accept.
AcceptorTimer ==
  /\ ~crashed
  /\ main_pc = "run"
  /\ acceptor.timers > 0
  /\ \E ec \in TimerErrors :
       IF ec = "other"
       THEN /\ crashed' = TRUE
            /\ acceptor' = acceptor_timer_completed(acceptor)
       ELSE /\ acceptor' = accept_connection(acceptor_timer_completed(acceptor))
            /\ UNCHANGED crashed
  /\ UNCHANGED <<options, main_pc, exit_code, key_fetch, served>>

NextStart ==
  \/ Main
  \/ WaitForPrivkey
  \/ KeyFetch
  \/ DelayExpired
  \/ StartServer
  \/ \E c \in Conns : Accept(c)
  \/ AcceptFailed
  \/ AcceptorTimer

\* The process from the entry of main, under every command line.
InitStart ==
  /\ InitMain
  /\ InitServer
  /\ timing = Untimed
  /\ conns = [c \in Conns |-> NewConn]
  /\ store = <<>>

SpecStart == InitStart /\ [][NextStart]_vars

\* The accept errors that say the process or the system ran out of file
\* descriptors.
EmfileClass == {"too_many_files_open", "too_many_files_open_in_system"}

\* C27: after an accept failed for want of file descriptors the node keeps
\* running: the acceptor is either waiting out its delay or accepting again,
\* and the process was not aborted by the failed accept.
C27_AcceptBacksOffAndResumes ==
  acceptor.ec \in EmfileClass
    => \/ acceptor.state = "backoff"
       \/ acceptor.state = "accepting" /\ ~crashed

\* An accept failed with ENFILE, the delay passed and the acceptor accepts
\* again, the process running.
C27_Witness ==
  /\ acceptor.ec = "too_many_files_open_in_system"
  /\ acceptor.state = "accepting"
  /\ main_pc = "run"
  /\ ~crashed

\* C28: main is past wait_for_privkey only with keys received from the
\* daemon, and a failed attempt is followed, once its delay has passed, by the
\* request being made again.
C28_KeysReceivedBeforeStart ==
  /\ [](main_pc \in {"start_server", "run"} => key_fetch.state = "received")
  /\ [][key_fetch.state = "delay" /\ key_fetch' # key_fetch
          => /\ key_fetch'.state = "in_flight"
             /\ key_fetch'.attempts = key_fetch.attempts + 1]_vars

\* The keys arrived at the second request or later, and main went on.
C28_Witness ==
  /\ main_pc = "start_server"
  /\ key_fetch.state = "received"
  /\ key_fetch.attempts >= 2

\* The exit codes the command line o allows: 0 when help or the version is
\* asked for, 2 when the two ports collide, 1 when anything else fails.
allowed_exit_codes(o) ==
  (IF o.print_help \/ o.print_version THEN {EXIT_SUCCESS} ELSE {})
  \cup (IF o.port_clash THEN {EXIT_INVALID_PORT} ELSE {})
  \cup (IF \/ o.bad_args \/ ~o.has_addr \/ ~o.dir_ok \/ ~o.log_ok
           \/ o.ip_local \/ ~o.sodium_ok \/ ~o.server_ok
        THEN {EXIT_FAILURE} ELSE {})

\* C29: when startup ends the process exits with a code, and the code is 0
\* for help or version, 2 for the port collision, 1 for any other failure
\* (where two of these meet, either code is accepted); and with 127.0.0.1 as
\* the listen address no request to the daemon and no acceptor ever exists.
C29_ExitCodes ==
  /\ main_pc = "done"
       => /\ ~crashed
          /\ exit_code \in allowed_exit_codes(options)
  /\ main_pc # "done" => exit_code = RUNNING
  /\ options.ip_local
       => key_fetch.state = "none" /\ acceptor.state = "none"

\* The listen port equals the daemon's RPC port and the process exited with 2.
C29_Witness ==
  /\ main_pc = "done"
  /\ options.port_clash
  /\ exit_code = EXIT_INVALID_PORT
  /\ ~crashed

\* ------------------------------------------------- commits against waiters
\* Client stores, long-poll retrieves and batches pushed by peers.
WakeRequests ==
  {[R0 EXCEPT !.pk = pk, !.hash = h] : pk \in Recipients, h \in Hashes}
  \cup {[R0 EXCEPT !.method = "retrieve", !.pk = pk, !.lp = TRUE] : pk \in Recipients}
  \cup {[R0 EXCEPT !.target = "/swarms/push_batch/v1", !.batch = b] : b \in Batches}

\* Waiters and committers on every connection slot; a batch commits its
\* messages one after the other within one handler.
NextWake ==
  \E c \in Conns :
    \/ Accept(c)
    \/ OnHandshake(c)
    \/ OnData(c, WakeRequests, FALSE)
    \/ OnWrite(c)
    \/ NotificationExpire(c)
    \/ NotificationHandler(c)
    \/ OnShutdown(c)

SpecWake == InitPoll /\ [][NextWake]_vars

\* The messages a step added to the store, in commit order.
committed == SubSeq(store', Len(store) + 1, Len(store'))

\* The waiter on connection c holds a delivered message and has not responded.
woken(c) ==
  /\ conns[c].nctx # None
  /\ conns[c].nctx.message # None
  /\ conns[c].resp = None

\* A step that commits for the recipient of a registered waiter delivers the
\* first message committed for that recipient.
first_commit_delivered(c) ==
  \A pk \in Recipients :
    (c \in listeners[pk] /\ conns[c].nctx # None /\ Woken(committed, pk))
      => /\ conns'[c].nctx # None
         /\ conns'[c].nctx.message = FirstFor(committed, pk)

\* A message delivered to a waiter stays in its slot whatever is committed.
slot_kept(c) ==
  (conns[c].nctx # None /\ conns[c].nctx.message # None /\ conns'[c].nctx # None)
    => conns'[c].nctx.message = conns[c].nctx.message

\* A waiter holding a delivered message responds with that message.
delivered_is_sent(c) ==
  (woken(c) /\ conns'[c].resp # None)
    => messages_response(conns'[c], <<conns[c].nctx.message>>)

\* C30: a waiter's slot is one-shot: the first commit for its recipient after
\* it registered is delivered, no later commit replaces the delivered
\* message, and the waiter's response carries that one message.
C30_SlotIsOneShot ==
  [][\A c \in Conns :
       /\ first_commit_delivered(c)
       /\ slot_kept(c)
       /\ delivered_is_sent(c)]_vars

\* A woken waiter that has not responded holds the first message committed
\* for its recipient while the store holds a later one for the same recipient.
C30_Witness ==
  \E c \in Conns : \E i, j \in 1..Len(store) :
    /\ woken(c)
    /\ i < j
    /\ store[i] = conns[c].nctx.message
    /\ store[j].pub_key = conns[c].nctx.pubkey
    /\ store[j] # store[i]

inbound == <<conns, listeners, store, req, called, crashed, uaf, DISABLE_ENCRYPTION,
             node, startup, tested, timing, offline_nodes, now, ret, marked>>

\* make_http_request: the address is resolved and a session is started, or,
\* when the resolution fails, the function returns.
MakeHttpRequest(i) ==
  /\ sessions[i].phase = "unissued"
  /\ \E resolved \in BOOLEAN :
       sessions' = [sessions EXCEPT ![i] =
                      IF resolved THEN start(@) ELSE [@ EXCEPT !.phase = "dropped"]]
  /\ UNCHANGED inbound

\* The pending operation of a session completes: its handler is queued with
\* the error code of the completion.
Complete(i) ==
  /\ sessions[i].op = "pending"
  /\ \E ec \in (IF sessions[i].phase = "read"
                THEN {"success", "error", "end_of_stream"}
                ELSE {"success", "error"}) :
       sessions' = [sessions EXCEPT ![i].op = "ready", ![i].ec = ec]
  /\ UNCHANGED inbound

ConnectHandler(i) ==
  /\ sessions[i].phase = "connect"
  /\ sessions[i].op = "ready"
  /\ sessions' = [sessions EXCEPT ![i] = connect_handler(@)]
  /\ UNCHANGED inbound

SessionOnWrite(i) ==
  /\ sessions[i].phase = "write"
  /\ sessions[i].op = "ready"
  /\ sessions' = [sessions EXCEPT ![i] = on_write(@)]
  /\ UNCHANGED inbound

SessionOnRead(i) ==
  /\ sessions[i].phase = "read"
  /\ sessions[i].op = "ready"
  /\ \E successful \in BOOLEAN :
       sessions' = [sessions EXCEPT ![i] = on_read(@, successful)]
  /\ UNCHANGED inbound

\* SESSION_TIME_LIMIT passed on the deadline timer of a session.
SessionDeadlineExpire(i) ==
  /\ sessions[i].deadline_timer = "armed"
  /\ sessions' = [sessions EXCEPT ![i].deadline_timer = "expired"]
  /\ UNCHANGED inbound

SessionDeadlineHandler(i) ==
  /\ sessions[i].deadline_timer \in {"expired", "aborted"}
  /\ sessions' = [sessions EXCEPT ![i] = deadline_handler(@)]
  /\ UNCHANGED inbound

\* The last handler holding the session has run: the destructor.
DestroySession(i) ==
  /\ sessions[i].phase = "done"
  /\ sessions[i].op = "none"
  /\ ~timer_pending(sessions[i].deadline_timer)
  /\ sessions' = [sessions EXCEPT ![i] = destroy_session(@)]
  /\ UNCHANGED inbound

NextSession ==
  \E i \in Sessions :
    \/ MakeHttpRequest(i)
    \/ Complete(i)
    \/ ConnectHandler(i)
    \/ SessionOnWrite(i)
    \/ SessionOnRead(i)
    \/ SessionDeadlineExpire(i)
    \/ SessionDeadlineHandler(i)
    \/ DestroySession(i)

SpecSession == InitPoll /\ [][NextSession]_vars

\* The callback a handler of session s posts in this step, if it posts one.
posted(i) == sessions'[i].callbacks[Len(sessions'[i].callbacks)]

posts(i) == Len(sessions'[i].callbacks) > Len(sessions[i].callbacks)

\* The error a callback posted while the session is at the given phase must
\* carry: NO_REACH for a failed connect, ERROR_OTHER for a failed write or
\* read and for a session destroyed before it called back, and for a read
\* that succeeded NO_ERROR with the body or HTTP_ERROR, by the status class.
expected_errors(s) ==
  IF s.phase = "connect" THEN {"NO_REACH"}
  ELSE IF s.phase = "read" /\ s.ec = "success" THEN {"NO_ERROR", "HTTP_ERROR"}
  ELSE {"ERROR_OTHER"}

\* C33: every request handed to make_http_request has its callback called
\* exactly once: never twice, once by the time the request is over (its
\* session finished or destroyed, or never created), with the error that
\* belongs to the cause and the body with NO_ERROR only.
C33_CallbackExactlyOnce ==
  /\ [](\A i \in Sessions :
          /\ Len(sessions[i].callbacks) <= 1
          /\ sessions[i].phase \in {"dropped", "done", "destroyed"}
               => Len(sessions[i].callbacks) = 1)
  /\ [][\A i \in Sessions :
          posts(i) => /\ posted(i).error \in expected_errors(sessions[i])
                      /\ posted(i).body = (posted(i).error = "NO_ERROR")]_vars

\* A session that ran to the response and was destroyed called back once,
\* with NO_ERROR and the body.
C33_Witness ==
  \E i \in Sessions :
    /\ sessions[i].phase = "destroyed"
    /\ sessions[i].callbacks = <<[error |-> "NO_ERROR", body |-> TRUE]>>

\* The deadline handler of session i closes the socket in this step.
deadline_closes(i) ==
  /\ sessions[i].deadline_timer = "expired"
  /\ sessions'[i].deadline_timer = "done"
  /\ sessions'[i].closes > sessions[i].closes

\* C34 as stated: the socket of a session is closed once at most; the
\* deadline handler closes it only when the callback has not been triggered;
\* and a callback posted after the deadline closed the socket carries an error.
C34_DeadlineClosesOnlyPending ==
  /\ [](\A i \in Sessions : sessions[i].closes <= 1)
  /\ [][\A i \in Sessions :
          /\ deadline_closes(i) => ~sessions[i].used_callback
          /\ (posts(i) /\ sessions[i].socket = "closed")
               => posted(i).error # "NO_ERROR"]_vars

\* C34, amended: the socket of a session is closed once at most and exactly
\* once by the time the session is destroyed; when the deadline handler closes
\* it under an operation still pending, that operation is aborted, and a
\* callback posted for an aborted operation carries NO_REACH or ERROR_OTHER;
\* triggering the callback leaves no deadline timer armed, so that the
\* deadline handler closes a session that has called back only if the timer
\* had expired before the callback was triggered.
C34_DeadlineClosesOnce ==
  /\ [](\A i \in Sessions :
          /\ sessions[i].closes <= 1
          /\ sessions[i].phase = "destroyed" => sessions[i].closes = 1
          /\ sessions[i].used_callback => sessions[i].deadline_timer # "armed")
  /\ [][\A i \in Sessions :
          /\ (deadline_closes(i) /\ sessions[i].op = "pending")
               => /\ sessions'[i].op = "ready"
                  /\ sessions'[i].ec = "operation_aborted"
          /\ (posts(i) /\ sessions[i].ec = "operation_aborted")
               => posted(i).error \in {"NO_REACH", "ERROR_OTHER"}]_vars

\* The deadline closed the socket under a pending write or read, and the
\* callback followed with ERROR_OTHER.
C34_Witness ==
  \E i \in Sessions :
    /\ sessions[i].phase = "done"
    /\ sessions[i].ec = "operation_aborted"
    /\ sessions[i].closes = 1
    /\ sessions[i].opens = 1
    /\ sessions[i].deadline_timer = "done"
    /\ sessions[i].callbacks = <<[error |-> "ERROR_OTHER", body |-> FALSE]>>

\* C35: the close sequence of a connection runs once at most (TLS shutdowns
\* started and sockets closed, together), and a connection that nothing holds
\* any more has recorded as many socket closes as socket opens.
C35_ClosedExactlyOnce ==
  \A c \in Conns :
    /\ conns[c].shutdowns + conns[c].closes <= 1
    /\ (conns[c].pc \in {"wait", "end"} /\ ~Referenced(c))
         => conns[c].closes = conns[c].opens

\* A connection whose response was written and delivered closed its socket
\* once, with one open recorded.
C35_Witness ==
  \E c \in Conns :
    /\ conns[c].delivered
    /\ conns[c].opens = 1
    /\ conns[c].closes = 1
    /\ conns[c].shutdowns = 0
    /\ ~Referenced(c)

\* C36: no callback runs against a destroyed connection: a connection is
\* destroyed only when no timer handler, stream operation, TLS shutdown or
\* blockchain-test answer is still to run against it.
C36_NoCallbackAfterDestroy ==
  /\ ~uaf
  /\ \A c \in Conns :
       conns[c].pc = "destroyed"
         => /\ ~conns[c].bc
            /\ ~timer_pending(conns[c].deadline)
            /\ ~timer_pending(conns[c].ntimer)
            /\ ~timer_pending(conns[c].rtimer)
            /\ conns[c].shutdowns = 0

\* The blockchain test was answered while the connection lived, and the
\* answer was written.
C36_Witness ==
  \E c \in Conns :
    /\ conns[c].pc = "write"
    /\ ~conns[c].bc
    /\ conns[c].writes = 1
    /\ conns[c].resp # None
    /\ conns[c].resp.status = 200
    /\ \E j \in 1..Len(conns[c].body_stream) : conns[c].body_stream[j] = Tag("res_height")
    /\ ~uaf

\* ------------------------------------------------------------- C37
\* The acceptor's timer always completes: a steady_timer wait of ACCEPT_DELAY
\* is called by io_context::run once the delay has passed.
SpecStartFair == SpecStart /\ WF_vars(AcceptorTimer)

\* The handlers of the accept loop that are outstanding.
outstanding == acceptor.accepts + acceptor.timers

\* C37: while the server runs exactly one handler of the accept loop is
\* outstanding, a pending accept or a pending wait on acceptor_timer, and
\* before run there is none; there are never two pending accepts; a handler
\* that completes without aborting the process starts exactly one successor;
\* and a pending wait is followed by a pending accept unless the process
\* aborts.
C37_OneAcceptOrTimer ==
  /\ [](IF main_pc = "run" /\ ~crashed
        THEN /\ outstanding = 1
             /\ acceptor.accepts \in {0, 1}
             /\ acceptor.timers \in {0, 1}
        ELSE acceptor.accepts <= 1 /\ (main_pc # "run" => outstanding = 0))
  /\ [][main_pc = "run" /\ ~crashed' /\ acceptor' # acceptor
          => acceptor'.accepts + acceptor'.timers = outstanding]_vars
  /\ (acceptor.timers > 0 ~> (acceptor.accepts > 0 \/ crashed))

\* An accept failed, the delay passed, the accept was started again and has
\* accepted a connection, after which the next accept is pending.
C37_Witness ==
  /\ acceptor.ec = "connection_aborted"
  /\ acceptor.accepts = 1 /\ acceptor.timers = 0
  /\ main_pc = "run" /\ ~crashed
  /\ \E c \in Conns : conns[c].pc = "handshake"

\* ------------------------------------------------------------- C38
\* C38: offline_nodes_ maps each peer to one record at most (the map is a
\* function of the pubkey); every record has first_failure <= last_tested;
\* a record that is there before and after a step has the same first_failure;
\* only record_unreachable(sn) creates a record, and it creates the record of
\* sn; set_reported on a peer without a record leaves the records as they are.
C38_RecordsWellFormed ==
  /\ [](/\ DOMAIN offline_nodes = SnPubKeys
        /\ \A sn \in SnPubKeys :
             offline_nodes[sn] # None
               => offline_nodes[sn].first_failure <= offline_nodes[sn].last_tested)
  /\ [][\A sn \in SnPubKeys :
          /\ (offline_nodes[sn] # None /\ offline_nodes'[sn] # None)
               => offline_nodes'[sn].first_failure = offline_nodes[sn].first_failure
          /\ (offline_nodes[sn] = None /\ offline_nodes'[sn] # None)
               => /\ reach_call("record_unreachable")
                  /\ ret'.sn = sn
                  /\ offline_nodes'[sn].first_failure = now
          /\ (reach_call("set_reported") /\ ret'.sn = sn /\ offline_nodes[sn] = None)
               => offline_nodes' = offline_nodes]_vars

\* set_reported was called on a peer without a record, while another peer has
\* a record that failed again after its first failure.
C38_Witness ==
  /\ ret # None
  /\ ret.op = "set_reported"
  /\ offline_nodes[ret.sn] = None
  /\ \E sn \in SnPubKeys :
       /\ offline_nodes[sn] # None
       /\ offline_nodes[sn].first_failure < offline_nodes[sn].last_tested

\* ------------------------------------------------------------- C39
\* The peers the tester's rounds go over.
RoundPeers == SnPubKeys \cup {"sn3"}

\* The peers that have a record.
Offline == {sn \in DOMAIN offline_nodes : offline_nodes[sn] # None}

\* A peer is found unreachable for the first time, before the tester's first
\* round: the rounds go over the peers that are offline by then.
GoOffline(sn) ==
  /\ tested = <<>>
  /\ offline_nodes[sn] = None
  /\ RecordUnreachable(sn)

\* A minute passes.
ClockAdvance ==
  /\ now < MaxRounds
  /\ now' = now + 1
  /\ UNCHANGED <<conns, listeners, store, req, called, crashed, uaf,
                 DISABLE_ENCRYPTION, node, startup, sessions, tested, timing,
                 offline_nodes, ret, marked>>

\* One round of the tester: next_to_test and, the peer failing its test
\* again, record_unreachable on it. The clock has advanced since the last
\* call of record_unreachable.
Round ==
  /\ Offline # {}
  /\ \A sn \in Offline : offline_nodes[sn].last_tested < now
  /\ \E order \in IterationOrders(Offline) :
       /\ offline_nodes' =
            record_unreachable(offline_nodes,
                               next_to_test(offline_nodes, order).value, now).records
       /\ ret' = [op |-> "record_unreachable",
                  sn |-> next_to_test(offline_nodes, order).value,
                  val |-> record_unreachable(offline_nodes,
                            next_to_test(offline_nodes, order).value, now).val]
       /\ tested' = Append(tested, next_to_test(offline_nodes, order).value)
  /\ UNCHANGED <<conns, listeners, store, req, called, crashed, uaf,
                 DISABLE_ENCRYPTION, node, startup, sessions, timing, now, marked>>

NextRounds ==
  \/ \E sn \in RoundPeers : GoOffline(sn)
  \/ ClockAdvance
  \/ Round

InitRounds ==
  /\ InitStarted
  /\ InitProcess
  /\ offline_nodes = [sn \in RoundPeers |-> None]
  /\ timing = Untimed
  /\ conns = [c \in Conns |-> NewConn]
  /\ store = <<>>

\* The tester's rounds over up to three peers that went offline at any times.
SpecRounds == InitRounds /\ [][NextRounds]_vars

\* The peers selected in the rounds first..last.
selected_in(first, last) == {tested[j] : j \in first..last}

\* C39: with n peers offline, the peers selected in any n consecutive rounds
\* are all the n offline peers.
C39_NoStarvation ==
  \A i \in 1..Len(tested) :
    i + Cardinality(Offline) - 1 <= Len(tested)
      => selected_in(i, i + Cardinality(Offline) - 1) = Offline

\* Three peers are offline, two of them since the same instant, and the
\* tester has made seven rounds.
C39_Witness ==
  /\ Cardinality(Offline) = 3
  /\ Len(tested) = MaxRounds
  /\ \E a, b \in Offline :
       a # b /\ offline_nodes[a].first_failure = offline_nodes[b].first_failure

====
